---- MODULE Spec2Model ----
(***************************************************************************)
(* Stream session manager of the torrent/URL streaming gateway             *)
(* (src/unnamed/part_001, server revision starting at line 1885):          *)
(* the session registry `streams`, the ffmpeg scheduler                    *)
(* (scheduleConversion / runNext), the per-session readiness poll and      *)
(* storage enforcer, the resource watch and the segment-duration monitor.  *)
(*                                                                         *)
(* Session objects have identity: `entry[k]` is the object created by the  *)
(* k-th create request, `streams[id]` is the object currently stored under *)
(* key id (0 = no such key).  Every handler closes over its streamId and   *)
(* reaches the object through streams[streamId], as the code does.         *)
(***************************************************************************)
EXTENDS Integers, Sequences, FiniteSets, TLC

----------------------------------------------------------------------------
(* Bounds of the model *)

\* number of create requests (POST /stream, POST /stream-yt) in a run
MaxSessions == 3
\* number of distinct values randomBytes(4).toString("hex") can take
NumIds == 2
\* create requests in a run of the session-life specifications
LifeSessions == 2
\* segments one transcoder writes before the model stops it writing
MaxSegs == 2

Ids == 1..NumIds
Sessions == 1..MaxSessions

(* Inputs *)

\* magnets: one whose torrent holds an .mp4, one with no playable file
Magnets == {"m_mp4", "m_none"}
\* and one whose torrent holds an .mp4 of a single byte
AllMagnets == Magnets \cup {"m_one"}
\* memory limits (MB) and cpu counts the resource probe can read
MemValues == {512, 2048}
CpuValues == {2, 4}
\* sizes (bytes) the transcoder gives playlist.m3u8, segments; yt-dlp the download
PlaylistSizes == {60, 150}
SegmentSizes == {1000}
VideoSizes == {1500}
\* request bodies of POST /seek/:id
SeekTimes == {9}
SeekSegments == {1}

(* Program constants.  Those the code reads from the environment carry the  *)
(* configuration of the modelled run; the code's default is noted.          *)

\* process.env.MIN_SEGMENT_SECONDS || '4'
MIN_SEGMENT_SECONDS == 4
\* process.env.MAX_SEGMENT_SECONDS || '10'
MAX_SEGMENT_SECONDS == 10
\* process.env.TARGET_STREAMS_PER_SEGMENT (default '10'), run with 1
TARGET_STREAMS_PER_SEGMENT == 1
\* process.env.MAX_STREAM_STORAGE_BYTES (default 2 GB), run with 1500 bytes
MAX_STREAM_STORAGE_BYTES == 1500
\* process.env.KEEP_SEGMENTS (default '5'), run with 1
KEEP_SEGMENTS == 1
\* stat.size > 100 of the readiness poll
PLAYLIST_MIN_BYTES == 100
\* entry.segmentDuration || 4
DEFAULT_SEGMENT_DURATION == 4

Null == "null"
Undef == -1

Max(a, b) == IF a >= b THEN a ELSE b
Min(a, b) == IF a <= b THEN a ELSE b

VARIABLES
    ffmpegAvailable,        \* let ffmpegAvailable
    detectedMemoryMB,       \* let detectedMemoryMB
    detectedCpus,           \* let detectedCpus
    MAX_CONCURRENT_FFMPEG,  \* let MAX_CONCURRENT_FFMPEG
    activeFfmpegCount,      \* let activeFfmpegCount
    ffmpegQueue,            \* const ffmpegQueue: sequence of closures (session indices)
    pendingRunNext,         \* number of setImmediate(runNext) callbacks not yet run
    currentSegmentDuration, \* let currentSegmentDuration
    streams,                \* const streams: id -> session object (0: key absent)
    entry,                  \* the session objects, by creation index
    nsess,                  \* create requests served so far
    sess,                   \* per create request: the closure state of its handlers
    client,                 \* WebTorrent client: magnet -> torrent state
    listeners,              \* magnet -> 'error' listeners of its torrent, in registration order
    folder,                 \* id -> files of /tmp/<id>, sorted by mtime ascending
    submitLog,              \* history: closures in the order scheduleConversion got them
    shiftLog,               \* history: closures in the order runNext shifted them
    res,                    \* the request served by the last step with its response
    pass,                   \* one call of enforceStorageLimit: its folder, budget,
                            \* KEEP_SEGMENTS and what it unlinked
    server                  \* the process and its HTTP listener: "listening",
                            \* "closing" (server.close() called), "exited"

schedVars == <<MAX_CONCURRENT_FFMPEG, activeFfmpegCount, ffmpegQueue, pendingRunNext,
               submitLog, shiftLog>>
resVars == <<detectedMemoryMB, detectedCpus>>
vars == <<ffmpegAvailable, detectedMemoryMB, detectedCpus, MAX_CONCURRENT_FFMPEG,
          activeFfmpegCount, ffmpegQueue, pendingRunNext, currentSegmentDuration,
          streams, entry, nsess, sess, client, listeners, folder, submitLog, shiftLog,
          res, pass, server>>

\* no request was served by the step
NoResponse == [op |-> "none"]
\* the process runs
Alive == server # "exited"
\* the listener accepts the connection a request comes in on
Accepting == server = "listening"
\* a step of the running process that sends no HTTP response, is no
\* stand-alone retention call and no step of the shutdown
Silent == Alive /\ res' = NoResponse /\ UNCHANGED <<pass, server>>
\* no retention call is under way.  A call that is followed statement by
\* statement also keeps its place (stage), the folder's id, the running total,
\* the candidates still to visit and the names of segmentsToKeep.
NoPass == [done |-> FALSE, files |-> <<>>, maxBytes |-> 0, keepSegments |-> 0,
           unlinked |-> <<>>, after |-> <<>>,
           stage |-> "idle", id |-> 0, total |-> 0, candidates |-> <<>>, keep |-> {}]

----------------------------------------------------------------------------
(* Tuning policy *)

\* Math.floor(mem / (perFfmpegMB * 1.2)), in integers
\* variant of the per-process estimate whose thresholds include 700 and 1500
perFfmpegMBInclusive(mem) == IF mem <= 700 THEN 256 ELSE IF mem <= 1500 THEN 512 ELSE 800
perFfmpegMB(mem) == IF mem < 700 THEN 256 ELSE IF mem < 1500 THEN 512 ELSE 800

computeRuntimeDefaults(mem, cpus) ==
    LET byMem == Max(1, (10 * mem) \div (12 * perFfmpegMB(mem)))
        byCpu == Max(1, cpus \div 2)
    IN  [maxConcurrent |-> Max(1, Min(byMem, byCpu)),
         threads |-> IF mem < 1024 THEN 1 ELSE Max(1, cpus \div 2)]

\* Object.keys(streams).length
ActiveStreams(st) == Cardinality({i \in Ids : st[i] # 0})

\* variant of the duration rule that rounds active / TARGET down
segmentDurationRoundedDown(n, MIN, MAX, TARGET) ==
    LET active == Max(1, n)
        factor == Max(1, active \div TARGET)
        duration == factor * MIN
    IN  Min(MAX, Max(MIN, duration))

\* the body of computeSegmentDuration for n registered sessions under the
\* settings MIN_SEGMENT_SECONDS, MAX_SEGMENT_SECONDS, TARGET_STREAMS_PER_SEGMENT;
\* Math.ceil(active / TARGET) of positive integers
segmentDuration(n, MIN, MAX, TARGET) ==
    LET active == Max(1, n)
        factor == Max(1, (active + TARGET - 1) \div TARGET)
        duration == factor * MIN
    IN  Min(MAX, Max(MIN, duration))

computeSegmentDuration(st) ==
    segmentDuration(ActiveStreams(st), MIN_SEGMENT_SECONDS, MAX_SEGMENT_SECONDS,
                    TARGET_STREAMS_PER_SEGMENT)

----------------------------------------------------------------------------
(* Session folder: the directory listing, a sequence of files               *)
(* [kind, n, size, mtime].  kind "segment" with number n is segment_<n>.ts, *)
(* "playlist" is playlist.m3u8, "other" is any other file (the yt-dlp       *)
(* download).  The transcoder appends what it writes, so the listing of a   *)
(* running session is in mtime order; getFolderFilesSorted sorts anyway.    *)

File(kind, n, size) == [kind |-> kind, n |-> n, size |-> size, mtime |-> 0]
FileName(f) == <<f.kind, f.n>>
\* /segment_\d+\.ts$/.test(f.name)
IsSegment(f) == f.kind = "segment"
NotSegment(f) == ~IsSegment(f)
IsPlaylist(f) == f.kind = "playlist"

RECURSIVE SumSizes(_)
SumSizes(files) == IF files = <<>> THEN 0 ELSE Head(files).size + SumSizes(Tail(files))

getFolderSize(files) == SumSizes(files)

\* Array.prototype.sort((a, b) => a.mtime - b.mtime), which is stable:
\* x goes behind every element that is not newer than it
RECURSIVE InsertByMtime(_, _)
InsertByMtime(sorted, x) ==
    IF sorted = <<>> THEN <<x>>
    ELSE IF sorted[Len(sorted)].mtime <= x.mtime THEN Append(sorted, x)
    ELSE Append(InsertByMtime(SubSeq(sorted, 1, Len(sorted) - 1), x), sorted[Len(sorted)])

RECURSIVE SortByMtime(_)
SortByMtime(files) ==
    IF files = <<>> THEN <<>>
    ELSE InsertByMtime(SortByMtime(SubSeq(files, 1, Len(files) - 1)), files[Len(files)])

\* variant of the listing that is left in directory order
getFolderFilesUnsorted(files) == files

\* fs.readdirSync + stat + sort by mtime
getFolderFilesSorted(files) == SortByMtime(files)

\* Array.prototype.slice(-n) for n >= 0  (slice(-0) is slice(0): the whole array)
SliceLast(s, n) ==
    IF n = 0 THEN s ELSE SubSeq(s, Max(1, Len(s) - n + 1), Len(s))

\* variant of the loop without the playlist.m3u8 test
RECURSIVE DeleteLoopNoPlaylistTest(_, _, _, _)
DeleteLoopNoPlaylistTest(candidates, keepNames, total, maxBytes) ==
    IF candidates = <<>> THEN <<>>
    ELSE LET f == Head(candidates) IN
         IF FileName(f) \in keepNames
         THEN DeleteLoopNoPlaylistTest(Tail(candidates), keepNames, total, maxBytes)
         ELSE IF total - f.size <= maxBytes
              THEN <<f>>
              ELSE <<f>> \o DeleteLoopNoPlaylistTest(Tail(candidates), keepNames,
                                                      total - f.size, maxBytes)

\* the for-loop of enforceStorageLimit: the files it unlinks, in order
RECURSIVE DeleteLoop(_, _, _, _)
DeleteLoop(candidates, keepNames, total, maxBytes) ==
    IF candidates = <<>> THEN <<>>
    ELSE LET f == Head(candidates) IN
         IF IsPlaylist(f) \/ FileName(f) \in keepNames
         THEN DeleteLoop(Tail(candidates), keepNames, total, maxBytes)
         ELSE IF total - f.size <= maxBytes
              THEN <<f>>
              ELSE <<f>> \o DeleteLoop(Tail(candidates), keepNames, total - f.size, maxBytes)

\* segmentsToKeep: names of segmentFiles.slice(-keepSegments)
SegmentsToKeep(files, keepSegments) ==
    LET segmentFiles == SelectSeq(getFolderFilesSorted(files), IsSegment)
        kept == SliceLast(segmentFiles, keepSegments)
    IN  {FileName(kept[i]) : i \in 1..Len(kept)}

\* files enforceStorageLimit unlinks from a folder, in order, when the
\* environment gives KEEP_SEGMENTS = keepSegments
UnlinkedKeep(files, maxBytes, keepSegments) ==
    LET total == getFolderSize(files)
        sorted == getFolderFilesSorted(files)
        segmentFiles == SelectSeq(sorted, IsSegment)
        otherFiles == SelectSeq(sorted, NotSegment)
        segmentsToKeep == SegmentsToKeep(files, keepSegments)
        NotKept(f) == FileName(f) \notin segmentsToKeep
        deletableSegments == SelectSeq(segmentFiles, NotKept)
        candidates == deletableSegments \o otherFiles
    IN  IF total <= maxBytes THEN <<>>
        ELSE DeleteLoop(candidates, segmentsToKeep, total, maxBytes)

\* the folder after enforceStorageLimit ran with KEEP_SEGMENTS = keepSegments
enforceStorageLimitKeep(files, maxBytes, keepSegments) ==
    LET gone == UnlinkedKeep(files, maxBytes, keepSegments)
        goneNames == {FileName(gone[i]) : i \in 1..Len(gone)}
        Stays(f) == FileName(f) \notin goneNames
    IN  SelectSeq(files, Stays)

\* the same under the configuration of the modelled run
Unlinked(files, maxBytes) == UnlinkedKeep(files, maxBytes, KEEP_SEGMENTS)

enforceStorageLimit(files, maxBytes) ==
    enforceStorageLimitKeep(files, maxBytes, KEEP_SEGMENTS)

Segments(files) == SelectSeq(files, IsSegment)
HasPlaylist(files) == \E i \in 1..Len(files) : IsPlaylist(files[i])
PlaylistSize(files) ==
    IF HasPlaylist(files)
    THEN files[CHOOSE i \in 1..Len(files) : IsPlaylist(files[i])].size
    ELSE 0
\* a playable file is in the folder: /\.(mp4|mkv|webm|mov|avi|flv)$/i
HasVideo(files) == \E i \in 1..Len(files) : files[i].kind = "other"

\* the mtime of a file written now: later than every file of the folder
RECURSIVE NewestMtime(_)
NewestMtime(files) ==
    IF files = <<>> THEN 0 ELSE Max(Head(files).mtime, NewestMtime(Tail(files)))

\* the transcoder (re)writes file f: it replaces a file of that name and is the newest
WriteFile(files, f) ==
    LET Other(g) == FileName(g) # FileName(f)
    IN  Append(SelectSeq(files, Other), [f EXCEPT !.mtime = NewestMtime(files) + 1])

----------------------------------------------------------------------------
(* Session objects *)

NewEntry(yt) ==
    [ready |-> FALSE, error |-> Null, file |-> Null, isYtDlp |-> yt,
     ffmpegActive |-> FALSE, segmentDuration |-> Undef, currentSegment |-> Undef,
     playbackPosition |-> Undef, totalSegments |-> Undef]

NoClosure ==
    [id |-> 0, kind |-> "none", pc |-> "none", magnet |-> Null, segSeconds |-> 0,
     poll |-> FALSE, enforcer |-> FALSE, nextSeg |-> 0]

\* streams[streamId].error = msg
SetError(e, msg) == [e EXCEPT !.error = msg]
\* ffmpeg 'end' handler of createProcFn / createProcYT: streams[streamId].ready = true
OnFfmpegEnd(e) == [e EXCEPT !.ready = TRUE]
\* variant of the 'error' handler that also withdraws readiness
OnFfmpegErrorResets(e) == [SetError(e, "ffmpeg_error") EXCEPT !.ready = FALSE]
\* ffmpeg 'error' handler of createProcFn / createProcYT
OnFfmpegError(e) == SetError(e, "ffmpeg_error")
\* readiness poll of processTorrent, once playlist and a segment are seen
OnPollReady(e, n) == [e EXCEPT !.ready = TRUE, !.totalSegments = n]
\* readiness poll of POST /stream-yt
OnPollReadyYT(e, n, seg) ==
    [e EXCEPT !.ready = TRUE, !.totalSegments = n, !.segmentDuration = seg,
              !.currentSegment = 0, !.playbackPosition = 0]
\* metadata stored at the end of processTorrent
StoreMetadata(e, seg, file) ==
    [e EXCEPT !.file = file, !.segmentDuration = seg,
              !.currentSegment = 0, !.playbackPosition = 0]

\* GET /status/:id: the ready, file and error fields of the response
StatusSnapshot(e) ==
    [ready |-> e.ready, file |-> e.file, error |-> e.error]

\* GET /status/:id
GetStatus(id) ==
    /\ Accepting
    /\ res' = IF streams[id] = 0
              THEN [op |-> "status", req |-> [id |-> id],
                    out |-> [status |-> 404, error |-> "stream not found"]]
              ELSE [op |-> "status", req |-> [id |-> id],
                    out |-> [status |-> 200, snapshot |-> StatusSnapshot(entry[streams[id]])]]
    /\ UNCHANGED <<ffmpegAvailable, detectedMemoryMB, detectedCpus, MAX_CONCURRENT_FFMPEG,
                   activeFfmpegCount, ffmpegQueue, pendingRunNext, submitLog, shiftLog,
                   currentSegmentDuration, streams, entry, nsess, sess, client, listeners,
                   folder, pass, server>>

----------------------------------------------------------------------------
(* Transcoder scheduler: scheduleConversion and its runNext closure *)

\* variant of the admission test that admits at the cap
HasCapacityOffByOne(active, cap) == active <= cap

\* runNext admits while activeFfmpegCount < MAX_CONCURRENT_FFMPEG
HasCapacity(active, cap) == active < cap

\* variant of the dequeue that takes the newest job
ShiftLast(q) == [item |-> q[Len(q)], rest |-> SubSeq(q, 1, Len(q) - 1)]

\* ffmpegQueue.shift()
Shift(q) == [item |-> Head(q), rest |-> Tail(q)]

\* ffmpegQueue.push({ streamId, createProc })
Push(q, k) == Append(q, k)

\* variant of the release that gives no slot back
ReleaseNothing(active) == active

\* variant of the release that gives back two slots
ReleaseTwice(active) == Max(0, active - 2)

\* onFinish / catch: activeFfmpegCount = Math.max(0, activeFfmpegCount - 1)
Release(active) == Max(0, active - 1)

\* scheduleConversion(streamId, createProcFn), k the closure pushed
scheduleConversion(k) ==
    /\ ffmpegQueue' = Push(ffmpegQueue, k)
    /\ pendingRunNext' = IF activeFfmpegCount < MAX_CONCURRENT_FFMPEG
                         THEN pendingRunNext + 1
                         ELSE pendingRunNext
    /\ submitLog' = Append(submitLog, k)
    /\ UNCHANGED <<MAX_CONCURRENT_FFMPEG, activeFfmpegCount, shiftLog>>

\* one setImmediate(runNext) callback runs
RunNext ==
    /\ pendingRunNext > 0
    /\ IF ffmpegQueue = <<>> \/ ~HasCapacity(activeFfmpegCount, MAX_CONCURRENT_FFMPEG)
       THEN /\ pendingRunNext' = pendingRunNext - 1
            /\ UNCHANGED <<MAX_CONCURRENT_FFMPEG, activeFfmpegCount, ffmpegQueue,
                           submitLog, shiftLog, entry, sess>>
       ELSE LET sh == Shift(ffmpegQueue)
                k == sh.item
                o == streams[sess[k].id]
            IN  /\ ffmpegQueue' = sh.rest
                /\ shiftLog' = Append(shiftLog, k)
                /\ UNCHANGED <<MAX_CONCURRENT_FFMPEG, submitLog>>
                /\ \/ \* item.createProc() returns the running command
                      /\ activeFfmpegCount' = activeFfmpegCount + 1
                      /\ pendingRunNext' = pendingRunNext - 1
                      /\ sess' = [sess EXCEPT ![k].pc = "running"]
                      /\ entry' = IF o # 0
                                  THEN [entry EXCEPT ![o].ffmpegActive = TRUE]
                                  ELSE entry
                   \/ \* item.createProc() throws: the catch releases and reschedules
                      /\ activeFfmpegCount' = Release(activeFfmpegCount + 1)
                      /\ pendingRunNext' = pendingRunNext - 1 + 1
                      /\ sess' = [sess EXCEPT ![k].pc = "threw"]
                      /\ entry' = entry
    /\ Silent /\ UNCHANGED <<ffmpegAvailable, resVars, currentSegmentDuration, streams, nsess,
                   client, listeners, folder>>

\* variant of onFinish that frees the slot without scheduling runNext
onFinishNoReschedule(k, en) ==
    LET o == streams[sess[k].id]
    IN  /\ activeFfmpegCount' = Release(activeFfmpegCount)
        /\ entry' = IF o # 0 THEN [en EXCEPT ![o].ffmpegActive = FALSE] ELSE en
        /\ UNCHANGED <<MAX_CONCURRENT_FFMPEG, ffmpegQueue, pendingRunNext, submitLog, shiftLog>>

\* onFinish, after the command's own 'end' / 'error' handler ran on the entry
onFinish(k, en) ==
    LET o == streams[sess[k].id]
    IN  /\ activeFfmpegCount' = Release(activeFfmpegCount)
        /\ entry' = IF o # 0 THEN [en EXCEPT ![o].ffmpegActive = FALSE] ELSE en
        /\ pendingRunNext' = pendingRunNext + 1
        /\ UNCHANGED <<MAX_CONCURRENT_FFMPEG, ffmpegQueue, submitLog, shiftLog>>

\* the running transcoder of closure k emits 'end'
FfmpegEnd(k) ==
    /\ sess[k].pc = "running"
    /\ LET o == streams[sess[k].id]
       IN  onFinish(k, IF o # 0 THEN [entry EXCEPT ![o] = OnFfmpegEnd(@)] ELSE entry)
    /\ sess' = [sess EXCEPT ![k].pc = "ended"]
    /\ Silent /\ UNCHANGED <<ffmpegAvailable, resVars, currentSegmentDuration, streams, nsess,
                   client, listeners, folder>>

\* the running transcoder of closure k emits 'error'
FfmpegError(k) ==
    /\ sess[k].pc = "running"
    /\ LET o == streams[sess[k].id]
       IN  onFinish(k, IF o # 0 THEN [entry EXCEPT ![o] = OnFfmpegError(@)] ELSE entry)
    /\ sess' = [sess EXCEPT ![k].pc = "errored"]
    /\ Silent /\ UNCHANGED <<ffmpegAvailable, resVars, currentSegmentDuration, streams, nsess,
                   client, listeners, folder>>

\* the running transcoder of closure k writes its next segment and the playlist;
\* the transcoder is a process of its own and needs no step of the server
FfmpegWrite(k) ==
    /\ sess[k].pc = "running"
    /\ sess[k].nextSeg < MaxSegs
    /\ \E ssz \in SegmentSizes, psz \in PlaylistSizes :
          LET id == sess[k].id
              f1 == WriteFile(folder[id], File("segment", sess[k].nextSeg, ssz))
          IN  /\ psz >= PlaylistSize(folder[id])
              /\ folder' = [folder EXCEPT ![id] = WriteFile(f1, File("playlist", 0, psz))]
    /\ sess' = [sess EXCEPT ![k].nextSeg = @ + 1]
    /\ res' = NoResponse
    /\ UNCHANGED <<pass, server>>
    /\ UNCHANGED <<ffmpegAvailable, resVars, schedVars, currentSegmentDuration, streams,
                   entry, nsess, client, listeners>>

\* recomputeDetectedResources: the cgroup files are read again
RecomputeDetectedResources ==
    /\ \E mem \in MemValues, cpus \in CpuValues :
          /\ detectedMemoryMB' = mem
          /\ detectedCpus' = cpus
    /\ Silent /\ UNCHANGED <<ffmpegAvailable, schedVars, currentSegmentDuration, streams, entry,
                   nsess, sess, client, listeners, folder>>

\* the resource watch interval: MAX_CONCURRENT_FFMPEG = envMax
ResourceWatch ==
    /\ MAX_CONCURRENT_FFMPEG' =
          computeRuntimeDefaults(detectedMemoryMB, detectedCpus).maxConcurrent
    /\ Silent /\ UNCHANGED <<ffmpegAvailable, resVars, activeFfmpegCount, ffmpegQueue,
                   pendingRunNext, submitLog, shiftLog, currentSegmentDuration, streams,
                   entry, nsess, sess, client, listeners, folder>>

----------------------------------------------------------------------------
(* Torrent variant *)

\* torrent.files.find(playable extension): the torrent's metadata must be there
HasPlayableFile(m, ready) == ready /\ m \in {"m_mp4", "m_one"}
\* the file found: its name
PlayableFile(m) == IF m = "m_one" THEN "one.mp4" ELSE "video.mp4"
\* file.length, in bytes
FileLength(file) == IF file = "one.mp4" THEN 1 ELSE 12

\* processTorrent(torrent, streamId, outputFolder) run by closure k, on the
\* registry st, objects en, closures se and listeners li its caller left
processTorrent(k, id, m, ready, st, en, se, li) ==
    LET o == st[id]
    IN  /\ streams' = st
        /\ listeners' = [li EXCEPT ![m] = Append(@, [k |-> k, h |-> "torrent_error"])]
        /\ IF ~ffmpegAvailable
           THEN /\ entry' = [en EXCEPT ![o] = SetError(@, "ffmpeg_missing")]
                /\ sess' = [se EXCEPT ![k].pc = "noplay"]
                /\ UNCHANGED schedVars
           ELSE IF ~HasPlayableFile(m, ready)
           THEN /\ entry' = [en EXCEPT ![o] = SetError(@, "no_playable_file")]
                /\ sess' = [se EXCEPT ![k].pc = "noplay"]
                /\ UNCHANGED schedVars
           ELSE LET segSeconds == computeSegmentDuration(st)
                IN  /\ scheduleConversion(k)
                    /\ sess' = [se EXCEPT ![k].pc = "queued",
                                          ![k].segSeconds = segSeconds,
                                          ![k].poll = TRUE,
                                          ![k].enforcer = TRUE]
                    /\ entry' = [en EXCEPT ![o] = StoreMetadata(@, segSeconds, PlayableFile(m))]

\* variant of the registration that leaves the registry as it is
RegisterNothing(st, id, k) == st

\* the registry after  streams[streamId] = {...}
Register(st, id, k) == [st EXCEPT ![id] = k]

\* variant of the create handlers that registers the session before it makes
\* the folder
CreateOutcomeRegistersFirst(hasInput, mkdirOk) ==
    IF ~hasInput THEN [status |-> 400, error |-> "required", registered |-> FALSE]
    ELSE IF ~mkdirOk
    THEN [status |-> 500, error |-> "failed to create output folder", registered |-> TRUE]
    ELSE [status |-> 200, error |-> Null, registered |-> TRUE]

\* the head of POST /stream and POST /stream-yt: the body must name a magnet
\* (a url), then fs.mkdirSync must succeed, then the session is registered
CreateOutcome(hasInput, mkdirOk) ==
    IF ~hasInput THEN [status |-> 400, error |-> "required", registered |-> FALSE]
    ELSE IF ~mkdirOk
    THEN [status |-> 500, error |-> "failed to create output folder", registered |-> FALSE]
    ELSE [status |-> 200, error |-> Null, registered |-> TRUE]

\* POST /stream (kind "torrent") or POST /stream-yt (kind "url") that is
\* answered 400 or 500; id is what randomBytes would return
CreateRejected(kind, id, hasInput, mkdirOk) ==
    /\ Accepting
    /\ LET out == CreateOutcome(hasInput, mkdirOk)
       IN  /\ out.status # 200
           /\ res' = [op |-> "create", kind |-> kind,
                      req |-> [hasInput |-> hasInput, mkdirOk |-> mkdirOk],
                      status |-> out.status, error |-> out.error]
           /\ streams' = IF out.registered
                          THEN Register(streams, id, Min(nsess + 1, MaxSessions))
                          ELSE streams
    /\ UNCHANGED <<ffmpegAvailable, resVars, schedVars, currentSegmentDuration, entry,
                   nsess, sess, client, listeners, folder, pass, server>>

\* POST /stream {magnet: m}; id is what randomBytes(4).toString("hex") returns
PostStream(id, m) ==
    /\ Accepting
    /\ nsess < MaxSessions
    /\ LET k == nsess + 1
           st == Register(streams, id, k)
           en == [entry EXCEPT ![k] = NewEntry(FALSE)]
           se == [sess EXCEPT ![k] = [NoClosure EXCEPT !.id = id, !.kind = "torrent",
                                                       !.pc = "adding", !.magnet = m]]
       IN  /\ nsess' = k
           /\ IF client[m] # "absent"
              THEN \* client.get(magnet) found the torrent: processTorrent runs now
                   /\ client' = client
                   /\ processTorrent(k, id, m, client[m] = "ready", st, en, se, listeners)
              ELSE \* client.add(...).on('error', ...)
                   /\ client' = [client EXCEPT ![m] = "adding"]
                   /\ listeners' = [listeners EXCEPT
                                      ![m] = Append(@, [k |-> k, h |-> "add_error"])]
                   /\ streams' = st
                   /\ entry' = en
                   /\ sess' = se
                   /\ UNCHANGED schedVars
    /\ Silent /\ UNCHANGED <<ffmpegAvailable, resVars, currentSegmentDuration, folder>>

\* the client.add callback of closure k: the torrent's metadata is available
AddCallback(k) ==
    /\ sess[k].kind = "torrent"
    /\ sess[k].pc = "adding"
    /\ client[sess[k].magnet] = "adding"
    /\ client' = [client EXCEPT ![sess[k].magnet] = "ready"]
    /\ processTorrent(k, sess[k].id, sess[k].magnet, TRUE, streams, entry, sess, listeners)
    /\ Silent /\ UNCHANGED <<ffmpegAvailable, resVars, currentSegmentDuration, nsess, folder>>

\* the 'error' listeners of a torrent run in registration order
RECURSIVE ApplyListeners(_, _)
ApplyListeners(ls, en) ==
    IF ls = <<>> THEN en
    ELSE LET o == streams[sess[Head(ls).k].id]
         IN  ApplyListeners(Tail(ls),
                            IF o # 0 THEN [en EXCEPT ![o] = SetError(@, Head(ls).h)] ELSE en)

\* the torrent of magnet m emits 'error' and is removed from the client
TorrentError(m) ==
    /\ client[m] # "absent"
    /\ entry' = ApplyListeners(listeners[m], entry)
    /\ sess' = [k \in Sessions |->
                  IF sess[k].pc = "adding" /\ sess[k].magnet = m
                  THEN [sess[k] EXCEPT !.pc = "addfail"]
                  ELSE sess[k]]
    /\ client' = [client EXCEPT ![m] = "absent"]
    /\ listeners' = [listeners EXCEPT ![m] = <<>>]
    /\ Silent /\ UNCHANGED <<ffmpegAvailable, resVars, schedVars, currentSegmentDuration, streams,
                   nsess, folder>>

----------------------------------------------------------------------------
(* URL variant *)

\* POST /stream-yt {url}
PostStreamYT(id) ==
    /\ Accepting
    /\ nsess < MaxSessions
    /\ LET k == nsess + 1
       IN  /\ nsess' = k
           /\ streams' = Register(streams, id, k)
           /\ entry' = [entry EXCEPT ![k] = NewEntry(TRUE)]
           /\ sess' = [sess EXCEPT ![k] = [NoClosure EXCEPT !.id = id, !.kind = "url",
                                                           !.pc = "downloading"]]
    /\ Silent /\ UNCHANGED <<ffmpegAvailable, resVars, schedVars, currentSegmentDuration, client,
                   listeners, folder>>

\* yt-dlp 'close' with a non-zero exit code
YtCloseFailed(k) ==
    /\ sess[k].pc = "downloading"
    /\ entry' = [entry EXCEPT ![streams[sess[k].id]] = SetError(@, "yt-dlp failed")]
    /\ sess' = [sess EXCEPT ![k].pc = "ytfail"]
    /\ Silent /\ UNCHANGED <<ffmpegAvailable, resVars, schedVars, currentSegmentDuration, streams,
                   nsess, client, listeners, folder>>

\* yt-dlp 'close' with exit code 0; `video` tells whether it left a playable file
YtClose(k, video) ==
    /\ sess[k].pc = "downloading"
    /\ \E vsz \in VideoSizes :
          LET id == sess[k].id
              o == streams[id]
              files == IF video THEN WriteFile(folder[id], File("other", 0, vsz))
                                ELSE folder[id]
          IN  /\ folder' = [folder EXCEPT ![id] = files]
              /\ IF ~HasVideo(files)
                 THEN /\ entry' = [entry EXCEPT ![o] = SetError(@, "no_video_file_from_ytdlp")]
                      /\ sess' = [sess EXCEPT ![k].pc = "ytfail"]
                 ELSE IF ~ffmpegAvailable
                 THEN /\ entry' = [entry EXCEPT ![o] = SetError(@, "ffmpeg_missing")]
                      /\ sess' = [sess EXCEPT ![k].pc = "ytfail"]
                 ELSE /\ entry' = entry
                      /\ sess' = [sess EXCEPT ![k].pc = "probing",
                                              ![k].segSeconds = computeSegmentDuration(streams),
                                              ![k].poll = TRUE,
                                              ![k].enforcer = TRUE]
    /\ Silent /\ UNCHANGED <<ffmpegAvailable, resVars, schedVars, currentSegmentDuration, streams,
                   nsess, client, listeners>>

\* the getStreamInfo probe of closure k returns: scheduleConversion(streamId, createProcYT)
ProbeDone(k) ==
    /\ sess[k].pc = "probing"
    /\ scheduleConversion(k)
    /\ sess' = [sess EXCEPT ![k].pc = "queued"]
    /\ Silent /\ UNCHANGED <<ffmpegAvailable, resVars, currentSegmentDuration, streams, entry,
                   nsess, client, listeners, folder>>

----------------------------------------------------------------------------
(* Output supervisor *)

\* variant of the poll's test that waits for a second segment
PollSeesReadyTwoSegments(files) ==
    /\ HasPlaylist(files)
    /\ Len(Segments(files)) > 1
    /\ PlaylistSize(files) > PLAYLIST_MIN_BYTES
\* the poll's test: playlist exists, a segment exists, playlist larger than 100 bytes
PollSeesReady(files) ==
    /\ HasPlaylist(files)
    /\ Len(Segments(files)) > 0
    /\ PlaylistSize(files) > PLAYLIST_MIN_BYTES

\* one tick of the readiness poll of closure k
PollTick(k) ==
    /\ sess[k].poll
    /\ LET id == sess[k].id
           o == streams[id]
           n == Len(Segments(folder[id]))
       IN  IF PollSeesReady(folder[id])
           THEN /\ entry' = IF o = 0 THEN entry
                            ELSE IF sess[k].kind = "url"
                            THEN [entry EXCEPT ![o] = OnPollReadyYT(@, n, sess[k].segSeconds)]
                            ELSE [entry EXCEPT ![o] = OnPollReady(@, n)]
                /\ sess' = [sess EXCEPT ![k].poll = FALSE]
           ELSE UNCHANGED <<entry, sess>>
    /\ Silent /\ UNCHANGED <<ffmpegAvailable, resVars, schedVars, currentSegmentDuration, streams,
                   nsess, client, listeners, folder>>

\* one tick of the storage enforcer of closure k
EnforcerTick(k) ==
    /\ sess[k].enforcer
    /\ streams[sess[k].id] # 0
    /\ folder' = [folder EXCEPT ![sess[k].id] = enforceStorageLimit(@, MAX_STREAM_STORAGE_BYTES)]
    /\ Silent /\ UNCHANGED <<ffmpegAvailable, resVars, schedVars, currentSegmentDuration, streams,
                   entry, nsess, sess, client, listeners>>

(* The storage enforcer statement by statement.  enforceStorageLimit runs  *)
(* to completion inside the server, so no handler of the server runs during *)
(* a pass; the transcoder is another process and writes the folder between  *)
(* the pass's reads and unlinks.                                            *)

\* variant of the budget test that compares the total with 0
BudgetMetAtZero(total, maxBytes) == total <= 0

\* total <= maxBytes: the early return and the break of the loop
BudgetMet(total, maxBytes) == total <= maxBytes

\* the server is not inside a retention pass
NoPassRunning == pass.stage = "idle"

\* a tick of the storage enforcer of closure k: getFolderSize and the early return
EnforcerSize(k) ==
    /\ Alive
    /\ NoPassRunning
    /\ sess[k].enforcer
    /\ streams[sess[k].id] # 0
    /\ LET total == getFolderSize(folder[sess[k].id])
       IN  pass' = IF BudgetMet(total, MAX_STREAM_STORAGE_BYTES)
                   THEN pass
                   ELSE [NoPass EXCEPT !.stage = "sized", !.id = sess[k].id,
                                       !.total = total,
                                       !.maxBytes = MAX_STREAM_STORAGE_BYTES,
                                       !.keepSegments = KEEP_SEGMENTS]
    /\ res' = NoResponse
    /\ UNCHANGED <<ffmpegAvailable, resVars, schedVars, currentSegmentDuration, streams,
                   entry, nsess, sess, client, listeners, folder, server>>

\* getFolderFilesSorted, segmentsToKeep and the candidates
EnforcerList ==
    /\ pass.stage = "sized"
    /\ LET files == folder[pass.id]
           sorted == getFolderFilesSorted(files)
           segmentFiles == SelectSeq(sorted, IsSegment)
           otherFiles == SelectSeq(sorted, NotSegment)
           segmentsToKeep == SegmentsToKeep(files, pass.keepSegments)
           NotKept(f) == FileName(f) \notin segmentsToKeep
       IN  pass' = [pass EXCEPT !.stage = "deleting", !.files = files,
                                !.keep = segmentsToKeep,
                                !.candidates = SelectSeq(segmentFiles, NotKept) \o otherFiles]
    /\ res' = NoResponse
    /\ UNCHANGED <<ffmpegAvailable, resVars, schedVars, currentSegmentDuration, streams,
                   entry, nsess, sess, client, listeners, folder, server>>

\* one turn of the for-loop over the candidates (or its end)
EnforcerUnlink ==
    /\ pass.stage = "deleting"
    /\ IF pass.candidates = <<>>
       THEN pass' = NoPass /\ UNCHANGED folder
       ELSE LET f == Head(pass.candidates)
                There(g) == FileName(g) = FileName(f)
                Other(g) == FileName(g) # FileName(f)
            IN  IF IsPlaylist(f) \/ FileName(f) \in pass.keep
                THEN \* continue
                     /\ pass' = [pass EXCEPT !.candidates = Tail(@)]
                     /\ UNCHANGED folder
                ELSE IF SelectSeq(folder[pass.id], There) = <<>>
                THEN \* fs.unlinkSync throws: the catch goes on with the next file
                     /\ pass' = [pass EXCEPT !.candidates = Tail(@)]
                     /\ UNCHANGED folder
                ELSE /\ folder' = [folder EXCEPT ![pass.id] = SelectSeq(@, Other)]
                     /\ pass' = IF BudgetMet(pass.total - f.size, pass.maxBytes)
                                 THEN NoPass
                                 ELSE [pass EXCEPT !.candidates = Tail(@),
                                                   !.total = @ - f.size,
                                                   !.unlinked = Append(@, f)]
    /\ res' = NoResponse
    /\ UNCHANGED <<ffmpegAvailable, resVars, schedVars, currentSegmentDuration, streams,
                   entry, nsess, sess, client, listeners, server>>

\* one tick of segmentMonitor
SegmentMonitorTick ==
    /\ LET newDur == computeSegmentDuration(streams)
       IN  IF newDur # currentSegmentDuration
           THEN /\ currentSegmentDuration' = newDur
                /\ entry' = [k \in Sessions |->
                               IF \E id \in Ids : streams[id] = k
                               THEN [entry[k] EXCEPT !.segmentDuration = newDur]
                               ELSE entry[k]]
           ELSE UNCHANGED <<currentSegmentDuration, entry>>
    /\ Silent /\ UNCHANGED <<ffmpegAvailable, resVars, schedVars, streams, nsess, sess, client,
                   listeners, folder>>

\* entry.segmentDuration || 4
SegDurOr4(e) == IF e.segmentDuration = Undef THEN DEFAULT_SEGMENT_DURATION ELSE e.segmentDuration

\* seekControl of GET /status/:id (and GET /seek-info/:id): the cursor as reported
SeekControl(e) ==
    [currentPosition |-> IF e.playbackPosition = Undef THEN 0 ELSE e.playbackPosition,
     currentSegment |-> IF e.currentSegment = Undef THEN 0 ELSE e.currentSegment,
     totalSegments |-> IF e.totalSegments = Undef THEN 0 ELSE e.totalSegments,
     segmentDuration |-> SegDurOr4(e)]

\* variant of the accepted seek that takes every segment to last 4 seconds
SeekToDefaultDuration(e, target) ==
    [e EXCEPT !.currentSegment = target,
              !.playbackPosition = target * DEFAULT_SEGMENT_DURATION]

\* the accepted seek: entry.currentSegment / entry.playbackPosition are set
SeekTo(e, target) ==
    [e EXCEPT !.currentSegment = target, !.playbackPosition = target * SegDurOr4(e)]

\* POST /seek/:id, body {time: t} (byTime) or {segment: t}
\* variant of the handler whose range test lets the target totalSegments through
SeekOutcomeOffByOne(e, byTime, t) ==
    LET targetSegment == IF byTime THEN t \div SegDurOr4(e) ELSE t
        totalSegments == IF e.totalSegments = Undef THEN 0 ELSE e.totalSegments
    IN  IF ~e.ready
        THEN [entry |-> e, status |-> 400, error |-> "stream not ready"]
        ELSE IF targetSegment < 0 \/ (totalSegments > 0 /\ targetSegment > totalSegments)
        THEN [entry |-> e, status |-> 400, error |-> "invalid segment"]
        ELSE LET e2 == SeekTo(e, targetSegment)
             IN  [entry |-> e2, status |-> 200, error |-> Null,
                  currentSegment |-> targetSegment,
                  playbackPosition |-> e2.playbackPosition]

\* variant of the handler without the readiness test
SeekOutcomeUnready(e, byTime, t) ==
    LET targetSegment == IF byTime THEN t \div SegDurOr4(e) ELSE t
        totalSegments == IF e.totalSegments = Undef THEN 0 ELSE e.totalSegments
    IN  IF targetSegment < 0 \/ (totalSegments > 0 /\ targetSegment >= totalSegments)
        THEN [entry |-> e, status |-> 400, error |-> "invalid segment"]
        ELSE LET e2 == SeekTo(e, targetSegment)
             IN  [entry |-> e2, status |-> 200, error |-> Null,
                  currentSegment |-> targetSegment,
                  playbackPosition |-> e2.playbackPosition]
\* POST /seek/:id on entry e: the response and the entry it leaves.
\* byTime: body {time: t}, else body {segment: t}
SeekOutcome(e, byTime, t) ==
    LET targetSegment == IF byTime THEN t \div SegDurOr4(e) ELSE t
        totalSegments == IF e.totalSegments = Undef THEN 0 ELSE e.totalSegments
    IN  IF ~e.ready
        THEN [entry |-> e, status |-> 400, error |-> "stream not ready"]
        ELSE IF targetSegment < 0 \/ (totalSegments > 0 /\ targetSegment >= totalSegments)
        THEN [entry |-> e, status |-> 400, error |-> "invalid segment"]
        ELSE LET e2 == SeekTo(e, targetSegment)
             IN  [entry |-> e2, status |-> 200, error |-> Null,
                  currentSegment |-> targetSegment,
                  playbackPosition |-> e2.playbackPosition]

\* POST /seek/:id, body {time: t} (byTime) or {segment: t}
Seek(id, byTime, t) ==
    /\ Accepting
    /\ LET o == streams[id]
           req == [id |-> id, byTime |-> byTime, t |-> t]
       IN  IF o = 0
           THEN /\ res' = [op |-> "seek", req |-> req, status |-> 404,
                           error |-> "stream not found"]
                /\ UNCHANGED entry
           ELSE LET out == SeekOutcome(entry[o], byTime, t)
                IN  /\ entry' = [entry EXCEPT ![o] = out.entry]
                    /\ res' = IF out.status = 200
                              THEN [op |-> "seek", req |-> req, status |-> 200,
                                    error |-> Null,
                                    currentSegment |-> out.currentSegment,
                                    playbackPosition |-> out.playbackPosition]
                              ELSE [op |-> "seek", req |-> req, status |-> out.status,
                                    error |-> out.error]
    /\ UNCHANGED <<ffmpegAvailable, resVars, schedVars, currentSegmentDuration, streams,
                   nsess, sess, client, listeners, folder, pass, server>>

\* POST /seek/:id with a body that gives neither time nor segment
SeekEmpty(id) ==
    /\ Accepting
    /\ LET o == streams[id]
           req == [id |-> id, empty |-> TRUE]
       IN  res' = IF o = 0
                  THEN [op |-> "seek", req |-> req, status |-> 404,
                        error |-> "stream not found"]
                  ELSE IF ~entry[o].ready
                  THEN [op |-> "seek", req |-> req, status |-> 400,
                        error |-> "stream not ready"]
                  ELSE [op |-> "seek", req |-> req, status |-> 400,
                        error |-> "time or segment parameter required"]
    /\ UNCHANGED <<ffmpegAvailable, resVars, schedVars, currentSegmentDuration, streams,
                   entry, nsess, sess, client, listeners, folder, pass, server>>

\* fs.existsSync of segment_<i>.ts in the session folder
SegmentExists(files, i) ==
    \E j \in 1..Len(files) : files[j].kind = "segment" /\ files[j].n = i

\* seekInfo of GET /seek-info/:id: the cursor, the totals and the segments
\* from ten before the cursor to ten after it
SeekInfo(e, files) ==
    LET c == SeekControl(e)
        rangeStart == Max(0, c.currentSegment - 10)
        rangeEnd == Min(c.totalSegments, c.currentSegment + 10)
    IN  [currentSegment |-> c.currentSegment,
         currentTime |-> c.currentPosition,
         totalSegments |-> c.totalSegments,
         totalDuration |-> c.totalSegments * c.segmentDuration,
         segmentDuration |-> c.segmentDuration,
         segments |-> [j \in 1..Max(0, rangeEnd - rangeStart) |->
                          [number |-> rangeStart + j - 1,
                           available |-> SegmentExists(files, rangeStart + j - 1),
                           time |-> (rangeStart + j - 1) * c.segmentDuration]]]

\* GET /seek-info/:id
GetSeekInfo(id) ==
    /\ Accepting
    /\ LET o == streams[id]
           req == [id |-> id]
       IN  res' = IF o = 0
                  THEN [op |-> "seekinfo", req |-> req, status |-> 404,
                        error |-> "stream not found"]
                  ELSE IF ~entry[o].ready
                  THEN [op |-> "seekinfo", req |-> req, status |-> 400,
                        error |-> "stream not ready"]
                  ELSE [op |-> "seekinfo", req |-> req, status |-> 200,
                        seekInfo |-> SeekInfo(entry[o], folder[id])]
    /\ UNCHANGED <<ffmpegAvailable, resVars, schedVars, currentSegmentDuration, streams,
                   entry, nsess, sess, client, listeners, folder, pass, server>>
----------------------------------------------------------------------------
(* GET /stream/:id: the source file, whole or a byte range of it *)

\* byte offsets a Range header of the model names: the ends of the one-byte file,
\* the last bytes of the twelve-byte file (two digits) and the offset past it
RangeOffsets == {0, 1, 10, 11, 12}

\* decimal digits of n >= 0, as the client writes them into the header
RECURSIVE Digits(_)
Digits(n) == IF n < 10 THEN <<n>> ELSE Append(Digits(n \div 10), n % 10)

\* the header "bytes=<a>-<b>" ("bytes=<a>-" when b is not given), as the two
\* texts  range.replace(/bytes=/, '').split('-')  leaves
RangeHeader(a, bGiven, b) ==
    [start |-> Digits(a), end |-> IF bGiven THEN Digits(b) ELSE <<>>]

\* parseInt(text, 10) of a text of decimal digits
RECURSIVE ParseInt(_)
ParseInt(txt) ==
    IF Len(txt) = 1 THEN txt[1]
    ELSE 10 * ParseInt(SubSeq(txt, 1, Len(txt) - 1)) + txt[Len(txt)]

\* variant of the test that lets end = size through
RangeNotSatisfiableOffByOne(start, end, size) ==
    start >= size \/ end > size \/ start > end

\* start >= size || end >= size || start > end
RangeNotSatisfiable(start, end, size) ==
    start >= size \/ end >= size \/ start > end

\* variant of the read that stops before the byte at end
ReadStreamExclusiveEnd(start, end) == [i \in 1..(end - start) |-> start + i - 1]

\* file.createReadStream({ start, end }): the offsets of the bytes read, end included
ReadStream(start, end) == [i \in 1..(end - start + 1) |-> start + i - 1]

\* the response of GET /stream/:id for a file of `size` bytes; header is
\* "none" (no Range header) or the two texts of the Range header
StreamResponse(size, hasRange, header) ==
    IF ~hasRange
    THEN [status |-> 200, contentLength |-> size, read |-> TRUE,
          body |-> ReadStream(0, size - 1)]
    ELSE LET start == ParseInt(header.start)
             end == IF header.end # <<>> THEN ParseInt(header.end) ELSE size - 1
         IN  IF RangeNotSatisfiable(start, end, size)
             THEN [status |-> 416, contentRange |-> [star |-> TRUE, size |-> size],
                   read |-> FALSE, body |-> <<>>]
             ELSE [status |-> 206,
                   contentRange |-> [star |-> FALSE, start |-> start, end |-> end,
                                     size |-> size],
                   contentLength |-> end - start + 1, read |-> TRUE,
                   body |-> ReadStream(start, end)]

\* GET /stream/:id with no Range header (hasRange FALSE) or Range: bytes=a-b
GetStream(id, hasRange, a, bGiven, b) ==
    /\ Accepting
    /\ LET o == streams[id]
           req == [id |-> id, hasRange |-> hasRange, a |-> a, bGiven |-> bGiven, b |-> b]
       IN  res' = IF o = 0
                  THEN [op |-> "stream", req |-> req,
                        out |-> [status |-> 404, error |-> "stream not found"]]
                  ELSE IF entry[o].file = Null
                  THEN [op |-> "stream", req |-> req,
                        out |-> [status |-> 404, error |-> "file not ready"]]
                  ELSE [op |-> "stream", req |-> req,
                        out |-> StreamResponse(FileLength(entry[o].file), hasRange,
                                               RangeHeader(a, bGiven, b))]
    /\ UNCHANGED <<ffmpegAvailable, resVars, schedVars, currentSegmentDuration, streams,
                   entry, nsess, sess, client, listeners, folder, pass, server>>

----------------------------------------------------------------------------
(* GET /subtitles/:id/:filename.  Paths are texts: sequences of characters. *)

HexDigits == <<"0", "1", "2", "3", "4", "5", "6", "7", "8", "9",
               "a", "b", "c", "d", "e", "f">>
\* randomBytes(..).toString('hex') of the value id, two digits long here
IdText(id) == <<HexDigits[((id \div 16) % 16) + 1], HexDigits[(id % 16) + 1]>>
\* entry.folder: `/tmp/${streamId}`
OutputFolder(id) == <<"/", "t", "m", "p", "/">> \o IdText(id)

\* text.split('/'): the pieces between the slashes, empty ones included
RECURSIVE SplitSlash(_, _)
SplitSlash(text, piece) ==
    IF text = <<>> THEN <<piece>>
    ELSE IF Head(text) = "/" THEN <<piece>> \o SplitSlash(Tail(text), <<>>)
    ELSE SplitSlash(Tail(text), Append(piece, Head(text)))

\* normalisation of an absolute path: '' and '.' are dropped, '..' takes the
\* piece before it away (and nothing at the root)
RECURSIVE Resolve(_, _)
Resolve(pieces, done) ==
    IF pieces = <<>> THEN done
    ELSE LET p == Head(pieces) IN
         IF p = <<>> \/ p = <<".">> THEN Resolve(Tail(pieces), done)
         ELSE IF p = <<".", ".">>
         THEN Resolve(Tail(pieces),
                      IF done = <<>> THEN done ELSE SubSeq(done, 1, Len(done) - 1))
         ELSE Resolve(Tail(pieces), Append(done, p))

RECURSIVE JoinSlash(_)
JoinSlash(pieces) ==
    IF pieces = <<>> THEN <<>> ELSE <<"/">> \o Head(pieces) \o JoinSlash(Tail(pieces))

\* path.join(dir, name) for an absolute dir
PathJoin(dir, name) ==
    LET pieces == Resolve(SplitSlash(dir \o <<"/">> \o name, <<>>), <<>>)
    IN  IF pieces = <<>> THEN <<"/">> ELSE JoinSlash(pieces)

\* String.prototype.startsWith
StartsWith(text, prefix) ==
    Len(prefix) <= Len(text) /\ SubSeq(text, 1, Len(prefix)) = prefix

\* the :filename parameters of the model, as Express hands them over (with
\* %2F decoded): a plain name, a path back into the session's folder, a path
\* into the sibling directory /tmp/<id>x, into /tmp/z, and one above /tmp
SubtitleNames(id) ==
    {<<"s">>,
     <<".", ".", "/">> \o IdText(id) \o <<"/", "s">>,
     <<".", ".", "/">> \o IdText(id) \o <<"x", "/", "s">>,
     <<".", ".", "/", "z", "/", "s">>,
     <<".", ".", "/", ".", ".", "/", "e">>}

\* GET /subtitles/:id/:filename; exists is what fs.existsSync(filepath) returns
GetSubtitle(id, filename, exists) ==
    /\ Accepting
    /\ LET req == [id |-> id, filename |-> filename]
           filepath == PathJoin(OutputFolder(id), filename)
       IN  res' = IF streams[id] = 0
                  THEN [op |-> "subtitles", req |-> req,
                        out |-> [status |-> 404, error |-> "stream not found"]]
                  ELSE IF ~StartsWith(filepath, OutputFolder(id))
                  THEN [op |-> "subtitles", req |-> req,
                        out |-> [status |-> 403, error |-> "access denied"]]
                  ELSE IF ~exists
                  THEN [op |-> "subtitles", req |-> req,
                        out |-> [status |-> 404, error |-> "subtitle file not found"]]
                  ELSE [op |-> "subtitles", req |-> req,
                        out |-> [status |-> 200, served |-> filepath]]
    /\ UNCHANGED <<ffmpegAvailable, resVars, schedVars, currentSegmentDuration, streams,
                   entry, nsess, sess, client, listeners, folder, pass, server>>

----------------------------------------------------------------------------
(* Shutdown *)

\* process.on('SIGTERM'): server.close(callback) stops the listener
Sigterm ==
    /\ Alive
    /\ server' = "closing"
    /\ res' = NoResponse
    /\ UNCHANGED <<ffmpegAvailable, resVars, schedVars, currentSegmentDuration, streams,
                   entry, nsess, sess, client, listeners, folder, pass>>

\* the callback of server.close: process.exit(0).  The timers and pending
\* callbacks of the process end with it; nothing signals the transcoder
\* subprocesses, which stay as they are.
ServerClosed ==
    /\ server = "closing"
    /\ server' = "exited"
    /\ sess' = [k \in Sessions |-> [sess[k] EXCEPT !.poll = FALSE, !.enforcer = FALSE]]
    /\ pendingRunNext' = 0
    /\ res' = NoResponse
    /\ UNCHANGED <<ffmpegAvailable, resVars, MAX_CONCURRENT_FFMPEG, activeFfmpegCount,
                   ffmpegQueue, submitLog, shiftLog, currentSegmentDuration, streams,
                   entry, nsess, client, listeners, folder, pass>>

----------------------------------------------------------------------------
(* The program *)

Init ==
    /\ ffmpegAvailable \in BOOLEAN
    /\ detectedMemoryMB \in MemValues
    /\ detectedCpus \in CpuValues
    /\ MAX_CONCURRENT_FFMPEG =
          computeRuntimeDefaults(detectedMemoryMB, detectedCpus).maxConcurrent
    /\ activeFfmpegCount = 0
    /\ ffmpegQueue = <<>>
    /\ pendingRunNext = 0
    /\ streams = [id \in Ids |-> 0]
    /\ currentSegmentDuration = computeSegmentDuration(streams)
    /\ entry = [k \in Sessions |-> NewEntry(FALSE)]
    /\ nsess = 0
    /\ sess = [k \in Sessions |-> NoClosure]
    /\ client = [m \in AllMagnets |-> "absent"]
    /\ listeners = [m \in AllMagnets |-> <<>>]
    /\ folder = [id \in Ids |-> <<>>]
    /\ submitLog = <<>>
    /\ shiftLog = <<>>
    /\ res = NoResponse
    /\ pass = NoPass
    /\ server = "listening"

\* every handler of the program
Next ==
    \/ \E id \in Ids, m \in AllMagnets : PostStream(id, m)
    \/ \E k \in Sessions : AddCallback(k)
    \/ \E m \in AllMagnets : TorrentError(m)
    \/ \E id \in Ids : PostStreamYT(id)
    \/ \E k \in Sessions : YtCloseFailed(k)
    \/ \E k \in Sessions, video \in BOOLEAN : YtClose(k, video)
    \/ \E k \in Sessions : ProbeDone(k)
    \/ RunNext
    \/ \E k \in Sessions : FfmpegWrite(k)
    \/ \E k \in Sessions : FfmpegEnd(k)
    \/ \E k \in Sessions : FfmpegError(k)
    \/ \E k \in Sessions : PollTick(k)
    \/ \E k \in Sessions : EnforcerTick(k)
    \/ SegmentMonitorTick
    \/ \E id \in Ids, byTime \in BOOLEAN, t \in SeekTimes \cup SeekSegments :
          Seek(id, byTime, t)
    \/ \E id \in Ids, hasRange, bGiven \in BOOLEAN, a, b \in RangeOffsets :
          GetStream(id, hasRange, a, bGiven, b)
    \/ \E id \in Ids : \E filename \in SubtitleNames(id) : GetSubtitle(id, filename, TRUE)
    \/ \E id \in Ids : \E filename \in SubtitleNames(id) : GetSubtitle(id, filename, FALSE)
    \/ \E kind \in {"torrent", "url"}, id \in Ids, hasInput, mkdirOk \in BOOLEAN :
          CreateRejected(kind, id, hasInput, mkdirOk)
    \/ \E id \in Ids : GetStatus(id)
    \/ \E k \in Sessions : EnforcerSize(k)
    \/ EnforcerList
    \/ EnforcerUnlink
    \/ RecomputeDetectedResources
    \/ ResourceWatch
    \/ Sigterm
    \/ ServerClosed

Spec == Init /\ [][Next]_vars

\* The scheduler and what feeds it: torrent sessions of a playable magnet
\* (creation, metadata callback), admission, transcoder termination, the
\* resource probe and the resource watch.  The handlers left out (poll,
\* enforcer, monitor, seek, torrent error, transcoder writes) read and write
\* no scheduler variable; a URL session reaches the scheduler through the
\* same scheduleConversion call.
NextSched ==
    \/ \E id \in Ids : PostStream(id, "m_mp4")
    \/ \E k \in Sessions : AddCallback(k)
    \/ RunNext
    \/ \E k \in Sessions : FfmpegEnd(k)
    \/ \E k \in Sessions : FfmpegError(k)
    \/ RecomputeDetectedResources
    \/ ResourceWatch

SpecSched == Init /\ [][NextSched]_vars

\* The same under the scheduling the event loop and the transcoders give:
\* a callback handed to setImmediate runs, and a started transcoder emits
\* 'end' or 'error'.
SpecSchedFair ==
    /\ Init
    /\ [][NextSched]_vars
    /\ WF_vars(RunNext)
    /\ \A k \in Sessions : WF_vars(FfmpegEnd(k) \/ FfmpegError(k))

\* The scheduler under a cap that stays what the start-up probe gave
NextFixedCap ==
    \/ \E id \in Ids : PostStream(id, "m_mp4")
    \/ \E k \in Sessions : AddCallback(k)
    \/ RunNext
    \/ \E k \in Sessions : FfmpegEnd(k)
    \/ \E k \in Sessions : FfmpegError(k)

SpecFixedCap == Init /\ [][NextFixedCap]_vars

\* The life of torrent sessions: every handler that touches a torrent
\* session's object or folder, for LifeSessions sessions, on a machine whose
\* probe reads 2048 MB (the cap is 1 or 2, by the cpu count) and stays so.
\* Of the seek requests those answered 200 are followed; the others change
\* nothing on the server and are followed in SpecSeek.
InitLife == Init /\ detectedMemoryMB = 2048

NextLife ==
    \/ \E id \in Ids, m \in Magnets : nsess < LifeSessions /\ PostStream(id, m)
    \/ \E k \in Sessions : AddCallback(k)
    \/ \E m \in Magnets : TorrentError(m)
    \/ RunNext
    \/ \E k \in Sessions : FfmpegWrite(k)
    \/ \E k \in Sessions : FfmpegEnd(k)
    \/ \E k \in Sessions : FfmpegError(k)
    \/ \E k \in Sessions : PollTick(k)
    \/ \E k \in Sessions : EnforcerTick(k)
    \/ SegmentMonitorTick
    \/ \E id \in Ids, t \in SeekTimes : Seek(id, TRUE, t) /\ res'.status = 200

SpecLife == InitLife /\ [][NextLife]_vars

\* The life of URL sessions, likewise
NextUrl ==
    \/ \E id \in Ids : nsess < LifeSessions /\ PostStreamYT(id)
    \/ \E k \in Sessions : YtCloseFailed(k)
    \/ \E k \in Sessions, video \in BOOLEAN : YtClose(k, video)
    \/ \E k \in Sessions : ProbeDone(k)
    \/ RunNext
    \/ \E k \in Sessions : FfmpegWrite(k)
    \/ \E k \in Sessions : FfmpegEnd(k)
    \/ \E k \in Sessions : FfmpegError(k)
    \/ \E k \in Sessions : PollTick(k)
    \/ \E k \in Sessions : EnforcerTick(k)
    \/ SegmentMonitorTick
    \/ \E id \in Ids, t \in SeekTimes : Seek(id, TRUE, t) /\ res'.status = 200

SpecUrl == InitLife /\ [][NextUrl]_vars

\* Seeking: torrent sessions that are created, transcoded and polled without
\* failures, and every seek request on them, on a machine with cap 2.
SeekTargets == {-1, 2, 9}

InitSeek == Init /\ ffmpegAvailable /\ detectedMemoryMB = 2048 /\ detectedCpus = 4

NextSeek ==
    \/ \E id \in Ids : nsess < LifeSessions /\ PostStream(id, "m_mp4")
    \/ \E k \in Sessions : AddCallback(k)
    \/ RunNext
    \/ \E k \in Sessions : FfmpegWrite(k)
    \/ \E k \in Sessions : FfmpegEnd(k)
    \/ \E k \in Sessions : PollTick(k)
    \/ SegmentMonitorTick
    \/ \E id \in Ids, byTime \in BOOLEAN, t \in SeekTargets : Seek(id, byTime, t)

SpecSeek == InitSeek /\ [][NextSeek]_vars

\* Seek requests of every kind, accepted and rejected: the sessions of
\* SpecSeek with POST /seek/:id bodies that give no target and
\* GET /seek-info/:id.
NextSeekAll ==
    \/ NextSeek
    \/ \E id \in Ids : SeekEmpty(id)
    \/ \E id \in Ids : GetSeekInfo(id)

SpecSeekAll == InitSeek /\ [][NextSeekAll]_vars
\* Serving the source file: torrent sessions of the two playable magnets up to
\* their stored metadata, and every GET /stream/:id on them.
NextRange ==
    \/ \E id \in Ids, m \in {"m_mp4", "m_one"} : nsess < LifeSessions /\ PostStream(id, m)
    \/ \E k \in Sessions : AddCallback(k)
    \/ \E id \in Ids, hasRange, bGiven \in BOOLEAN, a, b \in RangeOffsets :
          GetStream(id, hasRange, a, bGiven, b)

SpecRange == InitSeek /\ [][NextRange]_vars

\* Serving subtitle files: torrent sessions up to their stored metadata, and
\* every GET /subtitles/:id/:filename on them.
NextSubtitles ==
    \/ \E id \in Ids : nsess < LifeSessions /\ PostStream(id, "m_mp4")
    \/ \E k \in Sessions : AddCallback(k)
    \/ \E id \in Ids : \E filename \in SubtitleNames(id) : GetSubtitle(id, filename, TRUE)
    \/ \E id \in Ids : \E filename \in SubtitleNames(id) : GetSubtitle(id, filename, FALSE)

SpecSubtitles == InitSeek /\ [][NextSubtitles]_vars

\* Creation and the registry: create requests of both kinds, accepted and
\* rejected, every way a session can end without producing output, and
\* GET /status/:id.
NextCreate ==
    \/ \E id \in Ids, m \in Magnets : nsess < LifeSessions /\ PostStream(id, m)
    \/ \E id \in Ids : nsess < LifeSessions /\ PostStreamYT(id)
    \/ \E kind \in {"torrent", "url"}, id \in Ids, hasInput, mkdirOk \in BOOLEAN :
          CreateRejected(kind, id, hasInput, mkdirOk)
    \/ \E k \in Sessions : AddCallback(k)
    \/ \E m \in Magnets : TorrentError(m)
    \/ \E k \in Sessions : YtCloseFailed(k)
    \/ \E k \in Sessions, video \in BOOLEAN : YtClose(k, video)
    \/ \E k \in Sessions : ProbeDone(k)
    \/ RunNext
    \/ \E k \in Sessions : FfmpegEnd(k)
    \/ \E k \in Sessions : FfmpegError(k)
    \/ \E id \in Ids : GetStatus(id)

SpecCreate == InitLife /\ [][NextCreate]_vars

\* Retention while the transcoder writes: URL sessions whose download is in
\* the folder, their transcoders, and the storage enforcer followed statement
\* by statement; the server's own handlers wait for a running pass to return.
NextPass ==
    \/ \E id \in Ids : NoPassRunning /\ nsess < LifeSessions /\ PostStreamYT(id)
    \/ \E k \in Sessions : NoPassRunning /\ YtClose(k, TRUE)
    \/ \E k \in Sessions : NoPassRunning /\ ProbeDone(k)
    \/ NoPassRunning /\ RunNext
    \/ \E k \in Sessions : FfmpegWrite(k)
    \/ \E k \in Sessions : EnforcerSize(k)
    \/ EnforcerList
    \/ EnforcerUnlink

SpecPass == InitSeek /\ [][NextPass]_vars

\* Shutdown: torrent sessions that are created, transcoded, polled and kept
\* within their budget, and a SIGTERM at any moment.
NextShutdown ==
    \/ \E id \in Ids : nsess < LifeSessions /\ PostStream(id, "m_mp4")
    \/ \E k \in Sessions : AddCallback(k)
    \/ RunNext
    \/ \E k \in Sessions : FfmpegWrite(k)
    \/ \E k \in Sessions : FfmpegEnd(k)
    \/ \E k \in Sessions : PollTick(k)
    \/ \E k \in Sessions : EnforcerTick(k)
    \/ Sigterm
    \/ ServerClosed

SpecShutdown == InitSeek /\ [][NextShutdown]_vars

\* Readiness: torrent sessions that are created and transcoded, with the
\* readiness poll and the storage enforcer ticking.
NextPoll ==
    \/ \E id \in Ids : nsess < LifeSessions /\ PostStream(id, "m_mp4")
    \/ \E k \in Sessions : AddCallback(k)
    \/ RunNext
    \/ \E k \in Sessions : FfmpegWrite(k)
    \/ \E k \in Sessions : FfmpegEnd(k)
    \/ \E k \in Sessions : FfmpegError(k)
    \/ \E k \in Sessions : PollTick(k)
    \/ \E k \in Sessions : EnforcerTick(k)

\* The same under the scheduling of setInterval, setImmediate and the
\* transcoders: the callback of an armed poll or enforcer runs again and
\* again, so a tick that would mark the session ready, or delete files, is
\* not put off for ever; a scheduled runNext runs; and a started transcoder
\* emits 'end' or 'error'.
SpecPollFair ==
    /\ InitSeek
    /\ [][NextPoll]_vars
    /\ \A k \in Sessions : WF_vars(PollTick(k))
    /\ \A k \in Sessions : WF_vars(EnforcerTick(k))
    /\ WF_vars(RunNext)
    /\ \A k \in Sessions : WF_vars(FfmpegEnd(k) \/ FfmpegError(k))
----------------------------------------------------------------------------
(* The concurrency cap on its own: the probe reads any of a range of        *)
(* memory and cpu allowances, and the resource watch recomputes the cap.    *)

\* the most cpus the probe reads
MaxCpus == 8
\* memory allowances (MB) the probe reads: around the thresholds 700 and 1500
\* and around the multiples of perFfmpegMB * 1.2
ProbedMemory ==
    {128, 307, 308, 614, 615, 699, 700, 1228, 1229, 1499, 1500, 1919, 1920, 2048,
     2879, 2880, 4096}
ProbedCpus == 1..MaxCpus

\* recomputeDetectedResources on a machine whose allowances vary widely
RecomputeProbed ==
    /\ \E mem \in ProbedMemory, cpus \in ProbedCpus :
          /\ detectedMemoryMB' = mem
          /\ detectedCpus' = cpus
    /\ Silent /\ UNCHANGED <<ffmpegAvailable, schedVars, currentSegmentDuration, streams, entry,
                   nsess, sess, client, listeners, folder>>

NextCap ==
    \/ RecomputeProbed
    \/ ResourceWatch

SpecCap == InitSeek /\ [][NextCap]_vars
----------------------------------------------------------------------------
(* The segment-duration rule on its own: computeSegmentDuration for any     *)
(* number of registered sessions under several settings, next to torrent    *)
(* sessions that are created and given their duration.                      *)

\* the largest number of registered sessions the rule is applied to
MaxActive == 31
\* settings <<MIN_SEGMENT_SECONDS, MAX_SEGMENT_SECONDS, TARGET_STREAMS_PER_SEGMENT>>:
\* the defaults, the settings of this model, and two others
DurationSettings ==
    {<<4, 10, 10>>,
     <<MIN_SEGMENT_SECONDS, MAX_SEGMENT_SECONDS, TARGET_STREAMS_PER_SEGMENT>>,
     <<2, 9, 4>>, <<5, 5, 3>>}

InitDuration ==
    /\ ffmpegAvailable = TRUE
    /\ detectedMemoryMB = 2048
    /\ detectedCpus = 4
    /\ MAX_CONCURRENT_FFMPEG =
          computeRuntimeDefaults(detectedMemoryMB, detectedCpus).maxConcurrent
    /\ activeFfmpegCount = 0
    /\ ffmpegQueue = <<>>
    /\ pendingRunNext = 0
    /\ streams = [id \in Ids |-> 0]
    /\ currentSegmentDuration = computeSegmentDuration(streams)
    /\ entry = [k \in Sessions |-> NewEntry(FALSE)]
    /\ nsess = 0
    /\ sess = [k \in Sessions |-> NoClosure]
    /\ client = [m \in AllMagnets |-> "absent"]
    /\ listeners = [m \in AllMagnets |-> <<>>]
    /\ folder = [id \in Ids |-> <<>>]
    /\ submitLog = <<>>
    /\ shiftLog = <<>>
    /\ res = NoResponse
    /\ \E n \in 0..MaxActive, s \in DurationSettings :
          pass = [stage |-> "duration", active |-> n, MIN |-> s[1], MAX |-> s[2],
                  TARGET |-> s[3], duration |-> Undef]
    /\ server = "listening"

\* computeSegmentDuration() with pass.active sessions registered
DurationCall ==
    /\ pass.duration = Undef
    /\ pass' = [pass EXCEPT !.duration = segmentDuration(pass.active, pass.MIN, pass.MAX,
                                                        pass.TARGET)]
    /\ Alive
    /\ res' = NoResponse
    /\ UNCHANGED <<ffmpegAvailable, resVars, schedVars, currentSegmentDuration, streams,
                   entry, nsess, sess, client, listeners, folder, server>>

NextDuration ==
    \/ DurationCall
    \/ \E id \in Ids : nsess < LifeSessions /\ PostStream(id, "m_mp4")
    \/ \E k \in Sessions : AddCallback(k)

SpecDuration == InitDuration /\ [][NextDuration]_vars
----------------------------------------------------------------------------
(* The transcoding mode on its own: what createProcFn (torrent variant) and  *)
(* createProcYT (URL variant) start, for any source file name and any        *)
(* outcome of the ffprobe call.                                              *)

\* extensions of the source file, as written in its name
SourceExts == {".mp4", ".MP4", ".mkv", ".webm", ".mov", ".avi", ".flv"}
\* what the ffprobe command of getStreamInfo does: it fails, it prints a line
\* with codec_type=video, or it prints none
ProbeOutcomes == {"exec_error", "video_stream", "no_video_stream"}

\* String.prototype.toLowerCase on an extension
toLowerCase(ext) == IF ext = ".MP4" THEN ".mp4" ELSE ext

\* createProcFn: preferCopy = (path.extname(file.name).toLowerCase() === '.mp4')
preferCopy(ext) == toLowerCase(ext) = ".mp4"

\* getStreamInfo(filePath): null without ffprobe or when the command fails,
\* else streamInfo with videoCodec 'h264' for any video stream
getStreamInfo(ffprobeAvailable, outcome) ==
    IF ~ffprobeAvailable \/ outcome = "exec_error"
    THEN [isNull |-> TRUE, videoCodec |-> Null]
    ELSE [isNull |-> FALSE,
          videoCodec |-> IF outcome = "video_stream" THEN "h264" ELSE Null]

\* POST /stream-yt: useCopy = info && info.videoCodec && videoCodec includes 'h264'
useCopy(info) == ~info.isNull /\ info.videoCodec # Null /\ info.videoCodec = "h264"

InitMode ==
    /\ ffmpegAvailable = TRUE
    /\ detectedMemoryMB = 2048
    /\ detectedCpus = 4
    /\ MAX_CONCURRENT_FFMPEG =
          computeRuntimeDefaults(detectedMemoryMB, detectedCpus).maxConcurrent
    /\ activeFfmpegCount = 0
    /\ ffmpegQueue = <<>>
    /\ pendingRunNext = 0
    /\ streams = [id \in Ids |-> 0]
    /\ currentSegmentDuration = computeSegmentDuration(streams)
    /\ entry = [k \in Sessions |-> NewEntry(FALSE)]
    /\ nsess = 0
    /\ sess = [k \in Sessions |-> NoClosure]
    /\ client = [m \in AllMagnets |-> "absent"]
    /\ listeners = [m \in AllMagnets |-> <<>>]
    /\ folder = [id \in Ids |-> <<>>]
    /\ submitLog = <<>>
    /\ shiftLog = <<>>
    /\ res = NoResponse
    /\ \E variant \in {"torrent", "url"}, ext \in SourceExts, avail \in BOOLEAN,
          outcome \in ProbeOutcomes :
          pass = [stage |-> "mode", variant |-> variant, ext |-> ext,
                  ffprobeAvailable |-> avail, outcome |-> outcome, mode |-> "none"]
    /\ server = "listening"

\* createProcFn() of a torrent session whose file has extension pass.ext
CreateProcFn ==
    /\ pass.variant = "torrent"
    /\ pass.mode = "none"
    /\ pass' = [pass EXCEPT !.mode = IF preferCopy(pass.ext) THEN "copy" ELSE "encode"]
    /\ Alive
    /\ res' = NoResponse
    /\ UNCHANGED <<ffmpegAvailable, resVars, schedVars, currentSegmentDuration, streams,
                   entry, nsess, sess, client, listeners, folder, server>>

\* the probe and createProcYT() of a URL session whose download has extension pass.ext
CreateProcYT ==
    /\ pass.variant = "url"
    /\ pass.mode = "none"
    /\ pass' = [pass EXCEPT !.mode =
                  IF useCopy(getStreamInfo(pass.ffprobeAvailable, pass.outcome))
                  THEN "copy" ELSE "encode"]
    /\ Alive
    /\ res' = NoResponse
    /\ UNCHANGED <<ffmpegAvailable, resVars, schedVars, currentSegmentDuration, streams,
                   entry, nsess, sess, client, listeners, folder, server>>

NextMode ==
    \/ CreateProcFn
    \/ CreateProcYT

SpecMode == InitMode /\ [][NextMode]_vars
----------------------------------------------------------------------------
(* Subtitles of a torrent on their own: detectSubtitles and the loop of      *)
(* extractSubtitles, statement by statement, for any selection of files.     *)
(* Names, extensions and language codes are sequences of characters.         *)

\* the files a torrent of the model may hold, in the torrent's order
TorrentFileNames ==
    <<<<"a", ".", "e", "n", "g", ".", "s", "r", "t">>,
      <<"b", ".", "e", "n", "g", "l", "i", "s", "h", ".", "s", "r", "t">>,
      <<"c", ".", "s", "r", "t">>,
      <<"d", ".", "s", "r", "t">>,
      <<"f", ".", "h", "i", ".", "v", "t", "t">>,
      <<"G", ".", "E", "N", ".", "S", "R", "T">>,
      <<"m", ".", "m", "p", "4">> >>

\* the upper-case letters of those names and their lower-case forms
LowerChar(c) ==
    CASE c = "G" -> "g" [] c = "E" -> "e" [] c = "N" -> "n" [] c = "S" -> "s"
      [] c = "R" -> "r" [] c = "T" -> "t" [] OTHER -> c
\* String.prototype.toLowerCase on a name
NameToLowerCase(name) == [i \in 1..Len(name) |-> LowerChar(name[i])]

\* path.extname(name): from the last dot on, empty without a dot or when the
\* only dot comes first
ExtName(name) ==
    LET dots == {i \in 1..Len(name) : name[i] = "."}
    IN  IF dots = {} THEN <<>>
        ELSE LET last == CHOOSE i \in dots : \A j \in dots : j <= i
             IN  IF last = 1 THEN <<>> ELSE SubSeq(name, last, Len(name))

\* subtitleExtensions
subtitleExtensions ==
    {<<".", "s", "r", "t">>,
     <<".", "v", "t", "t">>,
     <<".", "a", "s", "s">>,
     <<".", "s", "s", "a">>,
     <<".", "s", "u", "b">>,
     <<".", "s", "b", "v">>,
     <<".", "j", "s", "o", "n">>}

\* String.prototype.includes
Includes(s, kw) ==
    \E i \in 1..(Len(s) - Len(kw) + 1) : SubSeq(s, i, i + Len(kw) - 1) = kw

\* langMap of detectLanguageFromName, in the order of its entries
langMap ==
    <<[lang |-> <<"e", "n", "g">>,
       keywords |-> {<<"e", "n", "g", "l", "i", "s", "h">>, <<"e", "n", "g">>}],
      [lang |-> <<"h", "i", "n">>,
       keywords |-> {<<"h", "i", "n", "d", "i">>, <<"h", "i", "n">>}],
      [lang |-> <<"t", "a", "m">>,
       keywords |-> {<<"t", "a", "m", "i", "l">>, <<"t", "a", "m">>}],
      [lang |-> <<"t", "e", "l">>,
       keywords |-> {<<"t", "e", "l", "u", "g", "u">>, <<"t", "e", "l">>}],
      [lang |-> <<"k", "a", "n">>,
       keywords |-> {<<"k", "a", "n", "n", "a", "d", "a">>, <<"k", "a", "n">>}],
      [lang |-> <<"m", "a", "l">>,
       keywords |-> {<<"m", "a", "l", "a", "y", "a", "l", "a", "m">>, <<"m", "a", "l">>}],
      [lang |-> <<"m", "a", "r">>,
       keywords |-> {<<"m", "a", "r", "a", "t", "h", "i">>, <<"m", "a", "r">>}],
      [lang |-> <<"b", "e", "n">>,
       keywords |-> {<<"b", "e", "n", "g", "a", "l", "i">>, <<"b", "e", "n">>}],
      [lang |-> <<"s", "p", "a">>,
       keywords |-> {<<"s", "p", "a", "n", "i", "s", "h">>, <<"e", "s">>, <<"s", "p", "a">>}],
      [lang |-> <<"f", "r", "a">>,
       keywords |-> {<<"f", "r", "e", "n", "c", "h">>, <<"f", "r">>, <<"f", "r", "a">>}],
      [lang |-> <<"d", "e", "u">>,
       keywords |-> {<<"g", "e", "r", "m", "a", "n">>, <<"d", "e">>, <<"d", "e", "u">>}],
      [lang |-> <<"p", "o", "r">>,
       keywords |-> {<<"p", "o", "r", "t", "u", "g", "u", "e", "s", "e">>, <<"p", "t">>, <<"p", "o", "r">>}],
      [lang |-> <<"r", "u", "s">>,
       keywords |-> {<<"r", "u", "s", "s", "i", "a", "n">>, <<"r", "u">>, <<"r", "u", "s">>}],
      [lang |-> <<"j", "p", "n">>,
       keywords |-> {<<"j", "a", "p", "a", "n", "e", "s", "e">>, <<"j", "a">>, <<"j", "p", "n">>}],
      [lang |-> <<"z", "h", "o">>,
       keywords |-> {<<"c", "h", "i", "n", "e", "s", "e">>, <<"z", "h">>, <<"z", "h", "o">>}],
      [lang |-> <<"a", "r", "a">>,
       keywords |-> {<<"a", "r", "a", "b", "i", "c">>, <<"a", "r">>, <<"a", "r", "a">>}],
      [lang |-> <<"t", "h", "a">>,
       keywords |-> {<<"t", "h", "a", "i">>, <<"t", "h">>, <<"t", "h", "a">>}] >>

\* iso2to3 of detectLanguageFromName
iso2to3 ==
    {<<<<"e", "n">>, <<"e", "n", "g">>>>,
     <<<<"h", "i">>, <<"h", "i", "n">>>>,
     <<<<"t", "a">>, <<"t", "a", "m">>>>,
     <<<<"t", "e">>, <<"t", "e", "l">>>>,
     <<<<"k", "n">>, <<"k", "a", "n">>>>,
     <<<<"m", "l">>, <<"m", "a", "l">>>>,
     <<<<"m", "r">>, <<"m", "a", "r">>>>,
     <<<<"b", "n">>, <<"b", "e", "n">>>>,
     <<<<"e", "s">>, <<"s", "p", "a">>>>,
     <<<<"f", "r">>, <<"f", "r", "a">>>>,
     <<<<"d", "e">>, <<"d", "e", "u">>>>,
     <<<<"p", "t">>, <<"p", "o", "r">>>>,
     <<<<"r", "u">>, <<"r", "u", "s">>>>,
     <<<<"j", "a">>, <<"j", "p", "n">>>>,
     <<<<"z", "h">>, <<"z", "h", "o">>>>,
     <<<<"a", "r">>, <<"a", "r", "a">>>>,
     <<<<"t", "h">>, <<"t", "h", "a">>>>}

unknown == <<"u", "n", "k", "n", "o", "w", "n">>

\* detectLanguageFromName(filename): the first langMap entry one of whose
\* keywords the lower-cased name includes; else the code of the leftmost
\* match of /\.(en|hi|...)[\.\-_]/; else 'unknown'
detectLanguageFromName(filename) ==
    LET nameLower == NameToLowerCase(filename)
        hits == {i \in 1..Len(langMap) :
                    \E kw \in langMap[i].keywords : Includes(nameLower, kw)}
        isoAt(i) == /\ i + 3 <= Len(nameLower)
                    /\ nameLower[i] = "."
                    /\ \E p \in iso2to3 : p[1] = SubSeq(nameLower, i + 1, i + 2)
                    /\ nameLower[i + 3] \in {".", "-", "_"}
        matches == {i \in 1..Len(nameLower) : isoAt(i)}
    IN  IF hits # {}
        THEN langMap[CHOOSE i \in hits : \A j \in hits : i <= j].lang
        ELSE IF matches # {}
        THEN LET at == CHOOSE i \in matches : \A j \in matches : i <= j
                 iso2 == SubSeq(nameLower, at + 1, at + 2)
             IN  (CHOOSE p \in iso2to3 : p[1] = iso2)[2]
        ELSE unknown

\* detectSubtitles(torrent, outputFolder): the subtitle files of the torrent
detectSubtitles(files) ==
    LET IsSubtitle(name) == ExtName(NameToLowerCase(name)) \in subtitleExtensions
        Info(name) == [name |-> name,
                       ext |-> Tail(ExtName(NameToLowerCase(name))),
                       language |-> detectLanguageFromName(name)]
        subs == SelectSeq(files, IsSubtitle)
    IN  [i \in 1..Len(subs) |-> Info(subs[i])]

\* `subtitle_${subInfo.language}.${subInfo.ext}`
SubtitleFile(subInfo) ==
    <<"s", "u", "b", "t", "i", "t", "l", "e", "_">> \o subInfo.language
       \o <<".">> \o subInfo.ext

\* the selections of the torrent's files: the files picked, in the torrent's order
Selections ==
    {SelectSeq([i \in 1..Len(TorrentFileNames) |-> i], LAMBDA i : i \in S) :
        S \in SUBSET (1..Len(TorrentFileNames))}

InitSubs ==
    /\ ffmpegAvailable = TRUE
    /\ detectedMemoryMB = 2048
    /\ detectedCpus = 4
    /\ MAX_CONCURRENT_FFMPEG =
          computeRuntimeDefaults(detectedMemoryMB, detectedCpus).maxConcurrent
    /\ activeFfmpegCount = 0
    /\ ffmpegQueue = <<>>
    /\ pendingRunNext = 0
    /\ streams = [id \in Ids |-> 0]
    /\ currentSegmentDuration = computeSegmentDuration(streams)
    /\ entry = [k \in Sessions |-> NewEntry(FALSE)]
    /\ nsess = 0
    /\ sess = [k \in Sessions |-> NoClosure]
    /\ client = [m \in AllMagnets |-> "absent"]
    /\ listeners = [m \in AllMagnets |-> <<>>]
    /\ folder = [id \in Ids |-> <<>>]
    /\ submitLog = <<>>
    /\ shiftLog = <<>>
    /\ res = NoResponse
    /\ \E sel \in Selections :
          pass = [stage |-> "torrent",
                  files |-> [i \in 1..Len(sel) |-> TorrentFileNames[sel[i]]],
                  subtitles |-> <<>>, next |-> 0, extracted |-> <<>>, written |-> {}]
    /\ server = "listening"

\* processTorrent: detectedSubs = detectSubtitles(torrent, outputFolder),
\* and extractSubtitles is entered when there are any
DetectSubtitles ==
    /\ pass.stage = "torrent"
    /\ LET detectedSubs == detectSubtitles(pass.files)
       IN  pass' = [pass EXCEPT !.subtitles = detectedSubs,
                                !.stage = IF Len(detectedSubs) > 0 THEN "extracting"
                                          ELSE "done",
                                !.next = 1]
    /\ Alive
    /\ res' = NoResponse
    /\ UNCHANGED <<ffmpegAvailable, resVars, schedVars, currentSegmentDuration, streams,
                   entry, nsess, sess, client, listeners, folder, server>>

\* one turn of the loop of extractSubtitles: the file is piped to outputPath
\* and pushed on `extracted`, or the pipe fails after outputPath was opened
ExtractSubtitle(piped) ==
    /\ pass.stage = "extracting"
    /\ LET subInfo == pass.subtitles[pass.next]
           outputPath == SubtitleFile(subInfo)
           others == {w \in pass.written : w.path # outputPath}
       IN  pass' = [pass EXCEPT
                      !.written = others \cup
                                     {[path |-> outputPath,
                                       bytes |-> IF piped THEN subInfo.name ELSE <<>>]},
                      !.extracted = IF piped
                                    THEN Append(@, [name |-> subInfo.name,
                                                    path |-> outputPath,
                                                    language |-> subInfo.language,
                                                    ext |-> subInfo.ext])
                                    ELSE @,
                      !.next = @ + 1,
                      !.stage = IF pass.next = Len(pass.subtitles) THEN "done"
                                ELSE "extracting"]
    /\ Alive
    /\ res' = NoResponse
    /\ UNCHANGED <<ffmpegAvailable, resVars, schedVars, currentSegmentDuration, streams,
                   entry, nsess, sess, client, listeners, folder, server>>

NextSubs ==
    \/ DetectSubtitles
    \/ ExtractSubtitle(TRUE)
    \/ ExtractSubtitle(FALSE)

SpecSubs == InitSubs /\ [][NextSubs]_vars
----------------------------------------------------------------------------
(* Retention on its own: one call of enforceStorageLimit on any folder,     *)
(* budget and KEEP_SEGMENTS setting.                                        *)

\* segment numbers a folder of the retention runs can hold
NumSegNames == 3
\* modification times of its files run over 1..MaxMtime
MaxMtime == 3
\* MAX_STREAM_STORAGE_BYTES settings
Budgets == {1500, 2500}
\* KEEP_SEGMENTS settings
KeepValues == {0, 1, 2}
\* sizes of playlist.m3u8
RetentionPlaylistSizes == {150, 2000}

\* the names a folder can hold, in name order
NameSeq ==
    <<<<"other", 0>>, <<"playlist", 0>>>> \o [i \in 1..NumSegNames |-> <<"segment", i - 1>>]
NameSet == {NameSeq[i] : i \in 1..Len(NameSeq)}
Reverse(s) == [i \in 1..Len(s) |-> s[Len(s) + 1 - i]]

\* fs.readdirSync and fs.statSync of a folder whose file nm has mtime m[nm]
\* (0: no such file), read in name order or in the reverse of it
Listing(m, psz, rev) ==
    LET order == IF rev THEN Reverse(NameSeq) ELSE NameSeq
        Present(nm) == m[nm] > 0
        names == SelectSeq(order, Present)
        SizeOf(nm) == IF nm[1] = "segment" THEN CHOOSE x \in SegmentSizes : TRUE
                      ELSE IF nm[1] = "playlist" THEN psz
                      ELSE CHOOSE x \in VideoSizes : TRUE
    IN  [i \in 1..Len(names) |->
           [kind |-> names[i][1], n |-> names[i][2], size |-> SizeOf(names[i]),
            mtime |-> m[names[i]]]]

InitRetention ==
    /\ ffmpegAvailable = TRUE
    /\ detectedMemoryMB = 2048
    /\ detectedCpus = 4
    /\ MAX_CONCURRENT_FFMPEG =
          computeRuntimeDefaults(detectedMemoryMB, detectedCpus).maxConcurrent
    /\ activeFfmpegCount = 0
    /\ ffmpegQueue = <<>>
    /\ pendingRunNext = 0
    /\ streams = [id \in Ids |-> 0]
    /\ currentSegmentDuration = computeSegmentDuration(streams)
    /\ entry = [k \in Sessions |-> NewEntry(FALSE)]
    /\ nsess = 0
    /\ sess = [k \in Sessions |-> NoClosure]
    /\ client = [m \in AllMagnets |-> "absent"]
    /\ listeners = [m \in AllMagnets |-> <<>>]
    /\ folder = [id \in Ids |-> <<>>]
    /\ submitLog = <<>>
    /\ shiftLog = <<>>
    /\ res = NoResponse
    /\ server = "listening"
    /\ \E m \in [NameSet -> 0..MaxMtime], psz \in RetentionPlaylistSizes, rev \in BOOLEAN,
          maxBytes \in Budgets, keepSegments \in KeepValues :
          pass = [NoPass EXCEPT !.files = Listing(m, psz, rev), !.maxBytes = maxBytes,
                                !.keepSegments = keepSegments,
                                !.after = Listing(m, psz, rev)]

\* enforceStorageLimit runs on the folder
RetentionPass ==
    /\ ~pass.done
    /\ pass' = [pass EXCEPT
                  !.done = TRUE,
                  !.unlinked = UnlinkedKeep(pass.files, pass.maxBytes, pass.keepSegments),
                  !.after = enforceStorageLimitKeep(pass.files, pass.maxBytes,
                                                    pass.keepSegments)]
    /\ res' = NoResponse
    /\ UNCHANGED <<ffmpegAvailable, resVars, schedVars, currentSegmentDuration, streams,
                   entry, nsess, sess, client, listeners, folder, server>>

NextRetention == RetentionPass

SpecRetention == InitRetention /\ [][NextRetention]_vars

----------------------------------------------------------------------------
(* Properties *)

Started(k) == sess[k].pc \in {"running", "ended", "errored"}
Running(k) == sess[k].pc = "running"
Finished(k) == sess[k].pc \in {"ended", "errored", "threw"}
Created == 1..nsess
\* no other session was created under the id of session k
Alone(k) == \A j \in Created \ {k} : sess[j].id # sess[k].id
IsPrefix(a, b) == Len(a) <= Len(b) /\ \A i \in 1..Len(a) : a[i] = b[i]

\* C1 (as claimed): in every reachable state the number of running transcoders
\* is at most the cap in force, also after a recomputation lowered the cap.
C1_ActiveWithinCap == activeFfmpegCount <= MAX_CONCURRENT_FFMPEG

\* C1 (amended): a transcoder is started only while activeFfmpegCount is below
\* the cap in force, and activeFfmpegCount <= MAX_CONCURRENT_FFMPEG is kept by
\* every step that does not lower the cap.
C1_CapKeptUnlessLowered ==
    [][/\ activeFfmpegCount' > activeFfmpegCount
            => /\ activeFfmpegCount < MAX_CONCURRENT_FFMPEG
               /\ activeFfmpegCount' <= MAX_CONCURRENT_FFMPEG'
       /\ (activeFfmpegCount <= MAX_CONCURRENT_FFMPEG
            /\ MAX_CONCURRENT_FFMPEG' >= MAX_CONCURRENT_FFMPEG)
            => activeFfmpegCount' <= MAX_CONCURRENT_FFMPEG']_vars

\* C1 witness: two transcoders run at cap 2 with a third job waiting, and the
\* resources just re-read call for cap 1 at the next watch tick
C1_Witness ==
    /\ MAX_CONCURRENT_FFMPEG = 2
    /\ computeRuntimeDefaults(detectedMemoryMB, detectedCpus).maxConcurrent = 1
    /\ activeFfmpegCount = 2
    /\ Len(ffmpegQueue) = 1

\* C2: jobs leave the queue in the order they were submitted, and a session's
\* transcoder is started only after every session submitted before it left the queue.
C2_Fifo ==
    /\ IsPrefix(shiftLog, submitLog)
    /\ ffmpegQueue = SubSeq(submitLog, Len(shiftLog) + 1, Len(submitLog))
    /\ \A i, j \in 1..Len(submitLog) :
          (i < j /\ Started(submitLog[j]))
             => (Started(submitLog[i]) \/ sess[submitLog[i]].pc = "threw")

\* C2 witness: at cap 1 the first submitted job has finished, the second runs
\* and the third waits
C2_Witness ==
    /\ Len(submitLog) = 3
    /\ Len(shiftLog) = 2
    /\ MAX_CONCURRENT_FFMPEG = 1
    /\ sess[submitLog[1]].pc = "ended"
    /\ Running(submitLog[2])
    /\ ffmpegQueue = <<submitLog[3]>>

\* C3: under a fixed cap M, once no admission callback is pending, N > M
\* submitted sessions of which none has finished leave exactly the first M
\* running and N - M queued; whenever jobs wait with no callback pending all M
\* slots are taken; and every start takes exactly the head of the queue.
C3_Saturation ==
    /\ [](/\ (pendingRunNext = 0 /\ Len(submitLog) > MAX_CONCURRENT_FFMPEG
                /\ \A k \in Sessions : ~Finished(k))
             => /\ activeFfmpegCount = MAX_CONCURRENT_FFMPEG
                /\ Len(ffmpegQueue) = Len(submitLog) - MAX_CONCURRENT_FFMPEG
                /\ \A i \in 1..Len(submitLog) :
                      Running(submitLog[i]) <=> i <= MAX_CONCURRENT_FFMPEG
          /\ (pendingRunNext = 0 /\ ffmpegQueue # <<>>)
             => activeFfmpegCount = MAX_CONCURRENT_FFMPEG)
    /\ [][\A k \in Sessions :
             (~Running(k) /\ sess'[k].pc = "running")
                => /\ k = Head(ffmpegQueue)
                   /\ ffmpegQueue' = Tail(ffmpegQueue)
                   /\ activeFfmpegCount' = activeFfmpegCount + 1
                   /\ \A j \in Sessions \ {k} : sess'[j].pc = sess[j].pc]_vars

\* C3 witness: cap 2, three sessions submitted, none finished, callbacks done
C3_Witness ==
    /\ MAX_CONCURRENT_FFMPEG = 2
    /\ Len(submitLog) = 3
    /\ pendingRunNext = 0
    /\ \A k \in Sessions : ~Finished(k)
    /\ activeFfmpegCount = 2
    /\ Len(ffmpegQueue) = 1

\* C4: at every instant at most one transcoder is running against a session folder.
C4_OneTranscoderPerFolder ==
    \A id \in Ids : Cardinality({k \in Sessions : sess[k].id = id /\ Running(k)}) <= 1

\* C5: no two sessions created in one process lifetime have the same id.
C5_UniqueIds ==
    \A a, b \in Created : a # b => sess[a].id # sess[b].id

\* C6: whenever a session is ready, its folder holds playlist.m3u8 of more than
\* 100 bytes and at least one segment file (stated for sessions whose id no
\* other session shares).
C6_ReadyHasPlaylistAndSegment ==
    \A k \in Created :
       (Alone(k) /\ entry[k].ready)
          => LET files == folder[sess[k].id]
             IN  /\ \E i \in 1..Len(files) :
                       files[i].kind = "playlist" /\ files[i].size > 100
                 /\ \E i \in 1..Len(files) : files[i].kind = "segment"

\* C7: once a session's ready flag is true, no step makes it false.
C7_ReadySticky ==
    [][\A k \in Sessions : entry[k].ready => entry'[k].ready]_vars

\* C7 witness: a session became ready, was seeked, and its transcoder then failed
C7_Witness ==
    \E k \in Created :
       /\ entry[k].ready
       /\ sess[k].pc = "errored"
       /\ entry[k].currentSegment > 0

\* C8: no status snapshot shows ready = true together with a non-null error
\* (stated for sessions whose id no other session shares).
C8_ReadyExcludesError ==
    \A k \in Created :
       Alone(k)
          => LET snap == StatusSnapshot(entry[streams[sess[k].id]])
             IN  ~(snap.ready /\ snap.error # Null)

\* C9: once a session's error is non-null, no step changes it, and the session
\* does not become ready afterwards (stated for sessions whose id no other
\* session shares, before and after the step).
C9_ErrorSetOnce ==
    [][\A k \in Created :
          (Alone(k) /\ Alone(k)' /\ entry[k].error # Null)
             => /\ entry'[k].error = entry[k].error
                /\ entry'[k].ready = entry[k].ready]_vars

\* C10: the status snapshot of a ready session has a non-null file, so that
\* GET /stream/:id does not answer 404 'file not ready' (stated for sessions
\* whose id no other session shares).
C10_ReadyHasFile ==
    \A k \in Created :
       Alone(k)
          => LET snap == StatusSnapshot(entry[streams[sess[k].id]])
             IN  snap.ready => snap.file # Null

\* names of the files of a listing
NamesOf(files) == {FileName(files[i]) : i \in 1..Len(files)}
\* names of the newest j segments of a listing (newest = last by mtime)
NewestSegments(files, j) ==
    LET segs == SelectSeq(SortByMtime(files), IsSegment)
    IN  {FileName(segs[i]) : i \in (Len(segs) - j + 1)..Len(segs)}
NumSegments(files) == Len(SelectSeq(files, IsSegment))

\* C11: after a retention pass either the folder's total size is within the
\* budget, or only playlist.m3u8 and the newest KEEP_SEGMENTS segments remain.
C11_BudgetOrMinimal ==
    pass.done
       => \/ SumSizes(pass.after) <= pass.maxBytes
          \/ NamesOf(pass.after) \subseteq
                {<<"playlist", 0>>}
                  \cup NewestSegments(pass.files,
                                      Min(pass.keepSegments, NumSegments(pass.files)))

\* C12: a retention pass never deletes playlist.m3u8, and deletes nothing when
\* playlist.m3u8 is the only file and exceeds the budget.
C12_PlaylistKept ==
    pass.done
       => /\ <<"playlist", 0>> \notin NamesOf(pass.unlinked)
          /\ <<"playlist", 0>> \in NamesOf(pass.files)
                => <<"playlist", 0>> \in NamesOf(pass.after)
          /\ (NamesOf(pass.files) = {<<"playlist", 0>>}
                /\ SumSizes(pass.files) > pass.maxBytes)
                => (pass.unlinked = <<>> /\ pass.after = pass.files)

\* C12 witness: a pass that deleted every candidate, met the playlist as the
\* oldest file, and still left the folder over budget
C12_Witness ==
    /\ pass.done
    /\ Len(pass.unlinked) >= 2
    /\ Len(pass.files) > 0
    /\ SortByMtime(pass.files)[1].kind = "playlist"
    /\ SumSizes(pass.after) > pass.maxBytes

\* C13: a retention pass protects exactly the newest min(KEEP_SEGMENTS, n) of
\* the n segments, for KEEP_SEGMENTS >= 0: it deletes none of them, and every
\* other segment goes when the budget calls for it.
C13_ProtectsNewest ==
    pass.done
       => LET protected == NewestSegments(pass.files,
                              Min(pass.keepSegments, NumSegments(pass.files)))
          IN  /\ NamesOf(pass.unlinked) \cap protected = {}
              /\ SumSizes(pass.after) > pass.maxBytes
                    => \A i \in 1..Len(pass.after) :
                          IsSegment(pass.after[i]) => FileName(pass.after[i]) \in protected

C15_SeekByTime ==
    [][(res'.op = "seek" /\ res'.status = 200 /\ res'.req.byTime)
          => LET o == streams[res'.req.id]
                 d == SeekControl(entry[o]).segmentDuration
             IN  /\ res'.currentSegment = res'.req.t \div d
                 /\ res'.playbackPosition = res'.currentSegment * d
                 /\ entry'[o].currentSegment = res'.currentSegment
                 /\ entry'[o].playbackPosition = res'.playbackPosition]_vars

\* C15 witness: a seek to second 9 answered 200 on a session whose segments
\* last 8 seconds
C15_Witness ==
    /\ res.op = "seek"
    /\ res.status = 200
    /\ res.req.byTime
    /\ res.req.t = 9
    /\ res.currentSegment = 1
    /\ res.playbackPosition = 8

\* C16: whenever a session's cursor has been set, the reported currentSegment
\* times the reported segmentDuration equals the reported position.
C16_CursorConsistent ==
    \A k \in Created :
       (Alone(k) /\ entry[k].currentSegment # Undef)
          => LET c == SeekControl(entry[k])
             IN  c.currentSegment * c.segmentDuration = c.currentPosition

\* C17: once a session's transcoder has been built, the session's
\* segmentDuration equals the hls_time the transcoder was started with.
C17_SegmentDurationFixed ==
    \A k \in Created :
       (Alone(k) /\ Started(k)) => entry[k].segmentDuration = sess[k].segSeconds

\* C18: while totalSegments > 0, a seek whose target segment is outside
\* [0, totalSegments) is answered 400 and leaves the cursor as it was, and a
\* seek whose target is inside is answered 200 and moves the cursor there.
C18_SeekRange ==
    [][(res'.op = "seek" /\ streams[res'.req.id] # 0)
          => LET o == streams[res'.req.id]
                 c == SeekControl(entry[o])
                 target == IF res'.req.byTime THEN res'.req.t \div c.segmentDuration
                           ELSE res'.req.t
             IN  c.totalSegments > 0
                    => IF target < 0 \/ target >= c.totalSegments
                       THEN /\ res'.status = 400
                            /\ entry'[o].currentSegment = entry[o].currentSegment
                            /\ entry'[o].playbackPosition = entry[o].playbackPosition
                       ELSE /\ res'.status = 200
                            /\ entry'[o].currentSegment = target]_vars

\* C18 witness: with two segments known and the cursor on segment 1, a seek to
\* segment 2 was answered 400
C18_Witness ==
    /\ res.op = "seek"
    /\ res.status = 400
    /\ ~res.req.byTime
    /\ res.req.t = 2
    /\ streams[res.req.id] # 0
    /\ entry[streams[res.req.id]].totalSegments = 2
    /\ entry[streams[res.req.id]].currentSegment = 1

\* the file GET /stream/:id serves for the request recorded in res
ServedFile == entry[streams[res.req.id]].file
RangeAsked ==
    /\ res.op = "stream"
    /\ res.req.hasRange
    /\ streams[res.req.id] # 0
    /\ ServedFile # Null
\* the last byte asked for: b, or size - 1 when the header gives none
LastAsked == IF res.req.bGiven THEN res.req.b ELSE FileLength(ServedFile) - 1

\* C19: Range: bytes=a-b with 0 <= a <= b < size (b = size - 1 when omitted) is
\* answered 206 with Content-Range bytes a-b/size, Content-Length b - a + 1 and
\* a body of exactly the bytes a..b of the file.
C19_RangeServed ==
    RangeAsked
       => LET size == FileLength(ServedFile)
              a == res.req.a
              b == LastAsked
          IN  (0 <= a /\ a <= b /\ b < size)
                 => /\ res.out.status = 206
                    /\ res.out.contentRange =
                          [star |-> FALSE, start |-> a, end |-> b, size |-> size]
                    /\ res.out.contentLength = b - a + 1
                    /\ Len(res.out.body) = b - a + 1
                    /\ \A i \in 1..Len(res.out.body) : res.out.body[i] = a + i - 1

\* C19 witness: bytes=0-0 of a one-byte file was served as one byte
C19_Witness ==
    /\ RangeAsked
    /\ FileLength(ServedFile) = 1
    /\ res.req.a = 0
    /\ res.req.bGiven
    /\ res.req.b = 0
    /\ res.out.status = 206
    /\ res.out.body = <<0>>

\* C20: a Range request with start >= size, end >= size or start > end is
\* answered 416 with Content-Range bytes */size, no body and no read of the file.
C20_RangeRejected ==
    RangeAsked
       => LET size == FileLength(ServedFile)
              a == res.req.a
              b == LastAsked
          IN  (a >= size \/ b >= size \/ a > b)
                 => /\ res.out.status = 416
                    /\ res.out.contentRange = [star |-> TRUE, size |-> size]
                    /\ res.out.body = <<>>
                    /\ ~res.out.read

\* C20 witness: bytes=1- of a 1-byte file (start = size) was answered 416
C20_Witness ==
    /\ RangeAsked
    /\ FileLength(ServedFile) = 1
    /\ res.req.a = 1
    /\ ~res.req.bGiven
    /\ res.out.status = 416

\* closure k was handed to scheduleConversion
Submitted(k) == \E i \in 1..Len(submitLog) : submitLog[i] = k
\* processTorrent of session k returned at 'ffmpeg_missing' or 'no_playable_file'
ResolutionFailed(k) == sess[k].kind = "torrent" /\ sess[k].pc = "noplay"

\* the record the registry holds under the id of session k: what the handlers
\* of session k read and write, and what GET /status/:id of that id reports
Record(k) == entry[streams[sess[k].id]]

\* C21: a torrent session whose resolution failed (no playable file, or no
\* transcoder binary) has an error recorded, was never submitted to the
\* scheduler, holds no scheduler slot and is not ready.
C21_FailedResolution ==
    \A k \in Created :
       ResolutionFailed(k)
          => /\ Record(k).error # Null
             /\ ~Submitted(k)
             /\ ~Started(k)
             /\ ~Record(k).ffmpegActive
             /\ ~Record(k).ready

\* C22: when the running transcoder of a session reports an error, the
\* session's error becomes the transcoder error and exactly one capacity slot
\* is released, and a session whose transcoder failed is never queued or
\* started again.
C22_TranscoderError ==
    [][\A k \in Sessions :
          /\ (Running(k) /\ sess'[k].pc = "errored")
                => /\ Record(k)'.error = "ffmpeg_error"
                   /\ ~Record(k)'.ffmpegActive
                   /\ activeFfmpegCount' = activeFfmpegCount - 1
          /\ sess[k].pc = "errored"
                => /\ sess'[k].pc = "errored"
                   /\ \A i \in 1..Len(ffmpegQueue') : ffmpegQueue'[i] # k]_vars

\* C22 witness: at cap 1 the transcoder of one session failed, its record shows
\* the transcoder error, and the slot it held went to the next session
C22_Witness ==
    \E k, j \in Created :
       /\ sess[k].pc = "errored"
       /\ Record(k).error = "ffmpeg_error"
       /\ MAX_CONCURRENT_FFMPEG = 1
       /\ activeFfmpegCount = 1
       /\ Running(j)

\* the path lies inside the directory: it is the directory or has it as a
\* leading run of whole path components
InsideFolder(path, dir) ==
    LET pp == Resolve(SplitSlash(path, <<>>), <<>>)
        dd == Resolve(SplitSlash(dir, <<>>), <<>>)
    IN  Len(dd) <= Len(pp) /\ SubSeq(pp, 1, Len(dd)) = dd

\* C23: GET /subtitles/:id/:filename answers 403 for every filename whose
\* joined and normalised path is not inside the session's folder, a sibling
\* directory whose name begins with the folder's name included.
C23_SubtitleConfined ==
    (res.op = "subtitles" /\ streams[res.req.id] # 0)
       => LET dir == OutputFolder(res.req.id)
          IN  ~InsideFolder(PathJoin(dir, res.req.filename), dir)
                 => res.out.status = 403

\* C24: the transcoder job of a URL session is submitted only after its
\* downloader exited with code 0 and a playable file was found in the folder;
\* after a non-zero exit or without a playable file the session has an error
\* and no transcoder job, readiness poll or ready state follows.
C24_UrlOrder ==
    /\ [][\A k \in Sessions :
             /\ (sess[k].kind = "url" /\ ~Submitted(k) /\ Submitted(k)')
                   => sess[k].pc = "probing"
             /\ (sess[k].pc # "probing" /\ sess'[k].pc = "probing")
                   => (sess[k].pc = "downloading" /\ HasVideo(folder'[sess[k].id]))]_vars
    /\ [](\A k \in Created :
             (sess[k].kind = "url" /\ sess[k].pc = "ytfail")
                => /\ Record(k).error # Null
                   /\ ~Submitted(k)
                   /\ ~sess[k].poll
                   /\ ~Record(k).ready)

\* C25: when the process exits after SIGTERM every session is closed: its
\* readiness poll and retention timer are stopped and no transcoder
\* subprocess of it is alive.
C25_ClosedAtExit ==
    server = "exited"
       => \A k \in Created :
             /\ ~sess[k].poll
             /\ ~sess[k].enforcer
             /\ ~Running(k)

\* C26: a create request answered 400 (no magnet, no url) or 500 (the folder
\* cannot be made) adds no record to the registry, starts no torrent and no
\* downloader, and schedules no job.
C26_RejectedCreate ==
    [][res'.op = "create"
          => /\ res'.status = IF ~res'.req.hasInput THEN 400 ELSE 500
             /\ UNCHANGED <<streams, entry, nsess, sess, client, listeners, folder,
                            ffmpegQueue, pendingRunNext, activeFfmpegCount, submitLog>>]_vars

\* C26 witness: with one session registered, a create request was answered 500
C26_Witness ==
    /\ res.op = "create"
    /\ res.status = 500
    /\ nsess = 1
    /\ \E id \in Ids : streams[id] # 0
    /\ \E id \in Ids : streams[id] = 0

\* C27: the id of every session created is in the registry from the step of
\* its create request on, no step removes an id from the registry, and
\* GET /status/:id of such an id is never answered 404.
C27_NeverEvicted ==
    /\ [](\A k \in Created : streams[sess[k].id] # 0)
    /\ [][\A id \in Ids : streams[id] # 0 => streams'[id] # 0]_vars
    /\ []((res.op = "status" /\ \E k \in Created : sess[k].id = res.req.id)
             => res.out.status = 200)

\* C27 witness: GET /status/:id of a session that ended in an error was answered 200
C27_Witness ==
    /\ res.op = "status"
    /\ res.out.status = 200
    /\ res.out.snapshot.error # Null
    /\ \E k \in Created : sess[k].id = res.req.id /\ sess[k].pc \in {"noplay", "ytfail", "errored"}

\* closure k waits in ffmpegQueue
Queued(k) == \E i \in 1..Len(ffmpegQueue) : ffmpegQueue[i] = k

\* C28: every job that waits in the queue eventually leaves it: runNext takes
\* it and calls its createProc, which starts the transcoder (or throws).
C28_EventuallyStarted ==
    \A k \in Sessions : Queued(k) ~> (Started(k) \/ sess[k].pc = "threw")

\* C28 witness: at cap 1 three jobs were submitted and each has been started
C28_Witness ==
    /\ MAX_CONCURRENT_FFMPEG = 1
    /\ Len(submitLog) = 3
    /\ \A i \in 1..3 : Started(submitLog[i])
    /\ ffmpegQueue = <<>>

\* C29: whenever no admission callback is pending, jobs wait in the queue only
\* if every slot of the cap in force is taken.
C29_NoIdleSlot ==
    (pendingRunNext = 0 /\ ffmpegQueue # <<>>)
       => activeFfmpegCount >= MAX_CONCURRENT_FFMPEG

\* C30: no file leaves a session folder while the folder's actual total size
\* is at most the budget: a pass deletes nothing from a folder within budget,
\* and stops deleting once the actual total is within budget, also when the
\* transcoder writes during the pass.
C30_NoDeletionWithinBudget ==
    [][\A id \in Ids :
          (NamesOf(folder[id]) \ NamesOf(folder'[id]) # {})
             => getFolderSize(folder[id]) > MAX_STREAM_STORAGE_BYTES]_vars

\* C30 witness: a pass has deleted a file, goes on, and the folder holds a
\* file the transcoder wrote after the pass listed it
C30_Witness ==
    /\ pass.stage = "deleting"
    /\ Len(pass.unlinked) >= 1
    /\ NewestMtime(folder[pass.id]) > NewestMtime(pass.files)

\* C31: every session that was created has its storage enforcer armed, whatever
\* stage it is in (resolving, downloading, failed, transcoding, ready): the
\* retention passes run from the session's creation on.
C31_RetentionFromCreation ==
    \A k \in Created : sess[k].enforcer

\* the folder holds what the transcoder must have produced for readiness:
\* playlist.m3u8 larger than 100 bytes and at least one segment file
Produced(files) ==
    /\ HasPlaylist(files)
    /\ PlaylistSize(files) > PLAYLIST_MIN_BYTES
    /\ Len(Segments(files)) >= 1

\* C32: while the poll of a session is armed and its folder holds a playlist
\* larger than 100 bytes and a segment, either the files do not stay or the
\* session becomes ready with totalSegments recorded and its poll stopped.
C32_EventuallyReady ==
    \A k \in Sessions :
       (sess[k].poll /\ Produced(folder[sess[k].id]))
          ~> \/ /\ k \in Created
                /\ ~sess[k].poll
                /\ Record(k).ready
                /\ Record(k).totalSegments >= 1
             \/ k \in Created /\ ~Produced(folder[sess[k].id])

\* C32 witness: a poll has marked its session ready from the files, with the
\* transcoder still running, and has stopped
C32_Witness ==
    \E k \in Created :
       /\ Running(k)
       /\ ~sess[k].poll
       /\ Record(k).ready
       /\ Record(k).totalSegments >= 1
       /\ Produced(folder[sess[k].id])

\* the fields of a session object that readiness leaves to the client and the
\* supervisor: seek cursor, segment duration, segment count
ReadyFields(e) ==
    <<e.currentSegment, e.playbackPosition, e.segmentDuration, e.totalSegments>>

\* C33: when the readiness poll or the transcoder's 'end' handler marks a
\* session that is ready already, the session's seek cursor, segmentDuration
\* and totalSegments stay as they were.
C33_ReadyAgainNoOp ==
    [][\A k \in Created :
          (Record(k).ready /\ (PollTick(k) \/ FfmpegEnd(k)))
             => ReadyFields(entry'[streams[sess[k].id]]) = ReadyFields(Record(k))]_vars

\* C34: once the transcoder of a ready session (the only one under its id)
\* has produced segment 1, its second segment, the session's totalSegments
\* comes to count it: a seek to segment 1 is eventually inside the accepted
\* range.
C34_CountsLaterSegments ==
    \A k \in Sessions :
       (k \in Created /\ Alone(k) /\ Record(k).ready /\ sess[k].nextSeg >= 2)
          ~> (k \in Created /\ SeekOutcome(Record(k), FALSE, 1).status = 200)

\* the least n with n * b >= a: the ceiling of a / b
CeilDiv(a, b) == CHOOSE n \in 0..a : n * b >= a /\ (n = 0 \/ (n - 1) * b < a)
Clamp(lo, hi, x) == IF x < lo THEN lo ELSE IF x > hi THEN hi ELSE x
\* the duration as the rule states it
ClampedDuration(active, MIN, MAX, TARGET) ==
    Clamp(MIN, MAX, CeilDiv(active, TARGET) * MIN)

\* C35: the duration computed for n registered sessions is
\* clamp(MIN, MAX, ceil(n / TARGET) * MIN); it lies in [MIN, MAX], is not
\* below the duration for fewer sessions, and under the defaults is 4 for
\* 1..10 sessions, 8 for 11..20 and 10 beyond; and the duration a new session
\* is given is that of the number of sessions registered at that moment.
C35_SegmentDuration ==
    /\ [](pass.duration # Undef =>
            /\ pass.duration = ClampedDuration(pass.active, pass.MIN, pass.MAX, pass.TARGET)
            /\ pass.MIN <= pass.duration /\ pass.duration <= pass.MAX
            /\ \A m \in 0..pass.active :
                  segmentDuration(m, pass.MIN, pass.MAX, pass.TARGET) <= pass.duration
            /\ (<<pass.MIN, pass.MAX, pass.TARGET>> = <<4, 10, 10>> /\ pass.active >= 1)
                  => pass.duration = IF pass.active <= 10 THEN 4
                                     ELSE IF pass.active <= 20 THEN 8 ELSE 10)
    /\ [][\A k \in Sessions :
             sess'[k].segSeconds # sess[k].segSeconds
                => sess'[k].segSeconds =
                      ClampedDuration(ActiveStreams(streams'), MIN_SEGMENT_SECONDS,
                                      MAX_SEGMENT_SECONDS, TARGET_STREAMS_PER_SEGMENT)]_vars

\* C35 witness: the rule was applied under the defaults to 11 sessions, and a
\* second session was given a longer duration than the first
C35_Witness ==
    /\ <<pass.MIN, pass.MAX, pass.TARGET>> = <<4, 10, 10>>
    /\ pass.active = 11
    /\ pass.duration = 8
    /\ \E j, k \in Created : sess[j].segSeconds = 4 /\ sess[k].segSeconds = 8

\* the largest n with n * (per * 1.2) <= mem: the floor of mem / (per * 1.2)
FloorOfMemoryShare(mem, per) ==
    CHOOSE n \in 0..mem : n * per * 12 <= mem * 10 /\ (n + 1) * per * 12 > mem * 10
\* the cap as the rule states it
StatedCap(mem, cpus) ==
    LET per == IF mem < 700 THEN 256 ELSE IF mem < 1500 THEN 512 ELSE 800
        byMem == FloorOfMemoryShare(mem, per)
        byCpu == CHOOSE n \in 0..cpus : 2 * n <= cpus /\ 2 * (n + 1) > cpus
        lower == IF byMem < byCpu THEN byMem ELSE byCpu
    IN  IF lower < 1 THEN 1 ELSE lower

\* C36: the cap in force is at least 1, starts as the stated function of the
\* resources probed at start-up, is set by every resource-watch tick to the
\* stated function of the resources detected then, and is changed by nothing
\* else.
C36_CapFromResources ==
    /\ MAX_CONCURRENT_FFMPEG = StatedCap(detectedMemoryMB, detectedCpus)
    /\ [](MAX_CONCURRENT_FFMPEG >= 1)
    /\ [][/\ ResourceWatch =>
                MAX_CONCURRENT_FFMPEG' = StatedCap(detectedMemoryMB, detectedCpus)
          /\ ~ResourceWatch => MAX_CONCURRENT_FFMPEG' = MAX_CONCURRENT_FFMPEG]_vars

\* C36 witness: a watch tick has set the cap to 3, the memory share of
\* 2880 MB, on a machine with 8 cpus
C36_Witness ==
    /\ detectedMemoryMB = 2880
    /\ detectedCpus = 8
    /\ MAX_CONCURRENT_FFMPEG = 3

\* the source container is MP4
ContainerIsMp4(ext) == ext \in {".mp4", ".MP4"}
\* a probe of the source was made and reported a video codec containing h264:
\* only the URL variant probes, and only with ffprobe at hand
ProbeReportsH264 ==
    pass.variant = "url" /\ pass.ffprobeAvailable /\ pass.outcome = "video_stream"

\* C37: in both variants a session is transcoded in copy-mux mode exactly when
\* its source container is MP4 or the probe reports a video codec containing
\* h264, and in baseline-encode mode otherwise.
C37_CopyMuxRule ==
    pass.mode # "none"
       => (pass.mode = "copy" <=> (ContainerIsMp4(pass.ext) \/ ProbeReportsH264))

\* C38: activeFfmpegCount is never negative and is the number of started
\* transcoders that have not emitted 'end' or 'error'; a transcoder that
\* emits its terminal event lowers the count by exactly one and never counts
\* again; and a createProc that throws leaves the count as it was before the
\* admission, with a runNext callback scheduled for the next queued job.
C38_CountIsRunning ==
    /\ [](/\ activeFfmpegCount >= 0
          /\ activeFfmpegCount = Cardinality({k \in Sessions : Running(k)}))
    /\ [][\A k \in Sessions :
             /\ (Running(k) /\ ~Running(k)')
                   => /\ activeFfmpegCount' = activeFfmpegCount - 1
                      /\ sess'[k].pc \in {"ended", "errored"}
             /\ Finished(k) => sess'[k].pc = sess[k].pc
             /\ (sess[k].pc # "threw" /\ sess'[k].pc = "threw")
                   => /\ activeFfmpegCount' = activeFfmpegCount
                      /\ pendingRunNext' >= 1]_vars

\* C38 witness: one createProc has thrown, one transcoder has ended and one
\* is running, counted once
C38_Witness ==
    /\ activeFfmpegCount = 1
    /\ \E i, j, k \in Created :
          /\ sess[i].pc = "threw"
          /\ sess[j].pc \in {"ended", "errored"}
          /\ Running(k)

\* the seek cursor of a session object
Cursor(e) == <<e.currentSegment, e.playbackPosition>>

\* C39: POST /seek/:id and GET /seek-info/:id on a session that is not ready
\* are answered 400; a seek request that is not answered 200 and every
\* seek-info request leave every session record as it was; and a request
\* moves a cursor only by an accepted seek on a session that is ready.
C39_RejectedSeekChangesNothing ==
    [][res'.op \in {"seek", "seekinfo"} =>
          LET o == streams[res'.req.id]
          IN  /\ (o # 0 /\ ~entry[o].ready) => res'.status = 400
              /\ (res'.status # 200 \/ res'.op = "seekinfo") => entry' = entry
              /\ \A k \in Sessions :
                    Cursor(entry'[k]) # Cursor(entry[k])
                       => /\ k = o
                          /\ entry[o].ready
                          /\ res'.op = "seek"
                          /\ res'.status = 200]_vars

\* C39 witness: a seek on a session that is registered with its metadata
\* stored, but not ready, was answered 400 with its cursor still at 0
C39_Witness ==
    /\ res.op = "seek"
    /\ res.status = 400
    /\ res.error = "stream not ready"
    /\ streams[res.req.id] # 0
    /\ ~entry[streams[res.req.id]].ready
    /\ entry[streams[res.req.id]].currentSegment = 0

\* C40: no two entries of the extracted-subtitle list share a path, and the
\* file at each entry's path holds the bytes of that entry's subtitle.
C40_DistinctSubtitleFiles ==
    /\ \A i, j \in 1..Len(pass.extracted) :
          i # j => pass.extracted[i].path # pass.extracted[j].path
    /\ \A i \in 1..Len(pass.extracted) :
          [path |-> pass.extracted[i].path, bytes |-> pass.extracted[i].name]
             \in pass.written

====
